---- MODULE Spec2Model ----
(***************************************************************************)
(* Fraud-investigation QA agent: the result validator, the simulated       *)
(* detection oracle, the execution engine, the risk analyzer, the accuracy *)
(* aggregator and the deployment decision, as state machines over the      *)
(* agent's fields.                                                         *)
(*                                                                         *)
(* Conventions.                                                            *)
(*  - A Python str that the code searches with `in` is a sequence of       *)
(*    one-character strings, so that substring search and lower() are      *)
(*    computed, not assumed.  A str that is only compared for equality is  *)
(*    a TLA+ string.                                                       *)
(*  - A Python dict is a record over its recognised keys; the value of a   *)
(*    key is <<>> when the key is absent and <<v>> when it maps to v.      *)
(*  - random.* draws are nondeterministic choices from small sets that     *)
(*    hold the end points of the drawn interval.                           *)
(*  - A float score is an exact rational [n |-> num, d |-> den], d > 0;    *)
(*    a score rounded to 2 decimals is an integer number of hundredths.    *)
(*  - Keys of actual_result that no code reads (timestamp, model_version,  *)
(*    processing_time_ms, alert_priority, action, warnings, the latency    *)
(*    averages, compliance_standard, ...) are left out, as are the         *)
(*    timestamp and performance_metrics of TestResult.                     *)
(***************************************************************************)
EXTENDS Integers, Sequences, FiniteSets, TLC

VARIABLES
    test_cases,            \* FraudQAAgent.test_cases
    test_results,          \* FraudQAAgent.test_results
    hallucination_checks,  \* FraudQAAgent.hallucination_checks
    risk_assessment,       \* FraudQAAgent.risk_assessment: <<>> for None, or <<RiskAssessment>>;
                           \* where calculate_risk is called twice, the earlier return comes second
    pc,                    \* position inside run_full_qa_cycle ("idle" outside)
    results,               \* local `results` of execute_test_suite
    validation_result,     \* local `validation_result` of the last _execute_single_test, <<>> when unbound
    raised,                \* exception the last call surfaced to its caller
    accuracy_metrics,      \* last return of _calculate_accuracy_metrics, <<>> before it
    performance_metrics,   \* last return of _calculate_performance_metrics, <<>> before it
    recommendation         \* last return of get_deployment_recommendation

vars == <<test_cases, test_results, hallucination_checks, risk_assessment, pc,
          results, validation_result, raised, accuracy_metrics,
          performance_metrics, recommendation>>

None == "None"

\* ------------------------------------------------------------------ bounds

MaxCases == 2

MaxRun == 1

MaxPad == 23
MaxFailures == 3

\* longest result list verify_results is applied to on its own
MaxResults == 3

\* ----------------------------------------------------------- Python strings

UpperCase == <<"A","B","C","D","E","F","G","H","I","J","K","L","M","N","O","P","Q","R","S","T","U","V","W","X","Y","Z">>

LowerCase == <<"a","b","c","d","e","f","g","h","i","j","k","l","m","n","o","p","q","r","s","t","u","v","w","x","y","z">>

LowerChar(c) ==
    IF \E i \in 1..Len(UpperCase) : UpperCase[i] = c
    THEN LowerCase[CHOOSE i \in 1..Len(UpperCase) : UpperCase[i] = c]
    ELSE c

\* str.lower()
Lower(s) == [i \in 1..Len(s) |-> LowerChar(s[i])]

\* sub in s
Contains(sub, s) ==
    \E i \in 0..(Len(s) - Len(sub)) : SubSeq(s, i + 1, i + Len(sub)) = sub

RECURSIVE Join(_, _)
\* sep.join(strs)
Join(sep, strs) ==
    IF strs = <<>> THEN <<>>
    ELSE IF Len(strs) = 1 THEN strs[1]
    ELSE strs[1] \o sep \o Join(sep, Tail(strs))

Digits == <<"0","1","2","3","4","5","6","7","8","9">>

RECURSIVE IntStr(_)
\* str(n) of a non-negative int
IntStr(n) ==
    IF n < 10 THEN <<Digits[n + 1]>>
    ELSE IntStr(n \div 10) \o <<Digits[(n % 10) + 1]>>

\* str(x) of a float with an integral value
FloatStr(n) == IntStr(n) \o <<".","0">>

\* repr(s) of a str without quotes or escapes
Repr(s) == <<"'">> \o s \o <<"'">>

\* str(list of str)
StrOfList(strs) ==
    <<"[">> \o Join(<<","," ">>, [i \in 1..Len(strs) |-> Repr(strs[i])]) \o <<"]">>

\* -------------------------------------------------------------------- enums

PASSED == "PASSED"
FAILED == "FAILED"
BLOCKED == "BLOCKED"
SKIPPED == "SKIPPED"

TestStatus == {PASSED, FAILED, BLOCKED, SKIPPED}

LOW == "LOW"
MEDIUM == "MEDIUM"
HIGH == "HIGH"
CRITICAL == "CRITICAL"

RiskLevel == {LOW, MEDIUM, HIGH, CRITICAL}

\* ------------------------------------------------------------- Python dicts

Has(d, k) == d[k] # <<>>

Get(d, k, default) == IF d[k] # <<>> THEN d[k][1] ELSE default

\* a number, or the str a JSON document may carry in its place
Num(n) == [ty |-> "num", v |-> n]
Str(n) == [ty |-> "str", v |-> n]

NoExpected == [fraud_alert_triggered |-> <<>>, risk_score |-> <<>>]

Expected(alert, score) == [fraud_alert_triggered |-> <<alert>>, risk_score |-> <<score>>]

NoTestData == [max_allowed_response_time_ms |-> <<>>]

EmptyResult ==
    [fraud_alert_triggered |-> <<>>, risk_score |-> <<>>, fraud_indicators |-> <<>>,
     confidence |-> <<>>, max_response_time_ms |-> <<>>, compliance_met |-> <<>>,
     violations |-> <<>>]

\* --------------------------------------------------------- Test Case Source

TestCase(id, category, test_data, expected, patterns) ==
    [test_case_id |-> id, category |-> category, test_data |-> test_data,
     expected_result |-> expected, fraud_patterns_tested |-> patterns]

\* _fallback_generation: TC-{FRAUD_TYPE}-{counter}, alert expected, score 70..95
tcFraud ==
    TestCase(<<"T","C","-","C","A","R","D","_","F","R","A","U","D","-","0","0","1">>, <<"C","a","r","d"," ","F","r","a","u","d">>, NoTestData,
             Expected(TRUE, Num(85)), <<"card_fraud">>)

\* _parse_groq_response: a legitimate transaction, should_detect false
tcNeg ==
    TestCase(<<"T","C","-","N","E","G","-","0","0","2">>, <<"L","e","g","i","t","i","m","a","t","e"," ","T","r","a","n","s","a","c","t","i","o","n">>, NoTestData,
             Expected(FALSE, Num(20)), <<>>)

\* _parse_groq_response: a Performance case, risk_score_min defaulted to 75
tcPerf ==
    TestCase(<<"T","C","-","P","E","R","F","-","0","0","3">>, <<"P","e","r","f","o","r","m","a","n","c","e">>,
             [max_allowed_response_time_ms |-> <<5000>>],
             Expected(FALSE, Num(75)), <<>>)

\* a Compliance case whose expected_result names neither alert nor score
tcComp ==
    TestCase(<<"T","C","-","C","O","M","P","-","0","0","4">>, <<"C","o","m","p","l","i","a","n","c","e">>, NoTestData, NoExpected, <<>>)

\* _parse_groq_response: a Compliance case whose risk_score_min came as a str
tcAml ==
    TestCase(<<"T","C","-","A","M","L","-","0","0","5">>, <<"C","o","m","p","l","i","a","n","c","e"," ","A","M","L">>, NoTestData,
             Expected(TRUE, Str(85)), <<>>)

\* _parse_groq_response: an edge case of a fraud type
tcEdge ==
    TestCase(<<"T","C","-","F","R","A","U","D","-","E","D","G","E","-","0","0","6">>, <<"E","d","g","e"," ","C","a","s","e">>, NoTestData,
             Expected(TRUE, Num(50)), <<"high_value", "unusual_time">>)

\* _parse_groq_response: a fraud case whose risk_score_min came as a str
tcWire ==
    TestCase(<<"T","C","-","W","I","R","E","_","F","R","A","U","D","-","0","0","7">>, <<"W","i","r","e"," ","T","r","a","n","s","f","e","r">>, NoTestData,
             Expected(TRUE, Str(90)), <<"high_value">>)

\* _parse_groq_response: a Compliance case with should_detect and risk_score_min
\* left to their defaults
tcKyc ==
    TestCase(<<"T","C","-","C","O","M","P","-","K","Y","C","-","0","0","8">>, <<"C","o","m","p","l","i","a","n","c","e">>, NoTestData,
             Expected(TRUE, Num(75)), <<>>)

TestCaseSource == {tcFraud, tcNeg, tcPerf, tcComp, tcAml, tcEdge, tcWire, tcKyc}

\* the suites generate_test_cases may return: no test case twice
Suites ==
    {s \in UNION {[1..n -> TestCaseSource] : n \in 0..MaxCases} :
        \A i, j \in DOMAIN s : i # j => s[i] # s[j]}

\* ---------------------------------------------------------- random draws

Variances == {-10, 10}
Confidences == {75, 99}
EdgeScores == {55}
EdgeConfidences == {50}
AvgPercents == {40, 70}
P99Percents == {85, 100}
ExceedPercents == {105, 120}
PossibleViolations ==
    {<<<<"M","i","s","s","i","n","g"," ","e","n","c","r","y","p","t","i","o","n"," ","o","n"," ","P","I","I"," ","f","i","e","l","d","s">>>>,
     <<<<"D","a","t","a"," ","r","e","t","e","n","t","i","o","n"," ","p","o","l","i","c","y"," ","n","o","t"," ","e","n","f","o","r","c","e","d">>, <<"A","c","c","e","s","s"," ","c","o","n","t","r","o","l"," ","m","i","s","c","o","n","f","i","g","u","r","a","t","i","o","n">>>>,
     <<<<"I","n","c","o","m","p","l","e","t","e"," ","a","u","d","i","t"," ","l","o","g"," ","f","o","r"," ","t","r","a","n","s","a","c","t","i","o","n"," ","X","Y","Z">>>>}

DefaultDraw ==
    [correct |-> TRUE, variance |-> 10, confidence |-> 75, edge_score |-> 55,
     edge_confidence |-> 50, avg_pct |-> 40, p99_pct |-> 85, exceed |-> FALSE,
     exceed_pct |-> 105, compliance_met |-> TRUE, execution_time_ms |-> 100,
     violations |-> <<<<"M","i","s","s","i","n","g"," ","e","n","c","r","y","p","t","i","o","n"," ","o","n"," ","P","I","I"," ","f","i","e","l","d","s">>>>]

FraudDraws ==
    {[DefaultDraw EXCEPT !.correct = c, !.variance = v, !.confidence = cf,
                         !.edge_score = es, !.edge_confidence = ec] :
        c \in BOOLEAN, v \in Variances, cf \in Confidences,
        es \in EdgeScores, ec \in EdgeConfidences}

PerformanceDraws ==
    {[DefaultDraw EXCEPT !.avg_pct = a, !.p99_pct = p, !.exceed = x, !.exceed_pct = xp] :
        a \in AvgPercents, p \in P99Percents, x \in BOOLEAN, xp \in ExceedPercents}

ComplianceDraws ==
    {[DefaultDraw EXCEPT !.compliance_met = m, !.violations = v] :
        m \in BOOLEAN, v \in PossibleViolations}

\* (time.time() - start_time) * 1000, the sleep excluded
ExecutionTimes == {100}

ClockDraws == {[DefaultDraw EXCEPT !.execution_time_ms = t] : t \in ExecutionTimes}

RandomDraws == FraudDraws \cup PerformanceDraws \cup ComplianceDraws \cup ClockDraws

\* ------------------------------------------------------- Detection Oracle

Max(a, b) == IF a >= b THEN a ELSE b
Min(a, b) == IF a <= b THEN a ELSE b
Abs(a) == IF a >= 0 THEN a ELSE -a

Returned(value) == [exception |-> <<>>, value |-> <<value>>]
Raised(message) == [exception |-> <<message>>, value |-> <<>>]

SimulateFraudTest(test_case, expected, rnd) ==
    LET expected_alert == Get(expected, "fraud_alert_triggered", FALSE)
        expected_score == Get(expected, "risk_score", Num(50))
    IN  IF expected_score.ty = "str"
        THEN Raised(<<"c","a","n"," ","o","n","l","y"," ","c","o","n","c","a","t","e","n","a","t","e"," ","s","t","r"," ","(","n","o","t"," ","\"","f","l","o","a","t","\"",")"," ","t","o"," ","s","t","r">>)
        ELSE
        LET actual_score == Max(0, Min(100, expected_score.v + rnd.variance))
            actual_alert == IF rnd.correct THEN expected_alert ELSE ~expected_alert
            result == [EmptyResult EXCEPT !.fraud_alert_triggered = <<actual_alert>>,
                                          !.risk_score = <<actual_score>>]
            withIndicators ==
                IF actual_alert
                THEN [result EXCEPT !.fraud_indicators = <<test_case.fraud_patterns_tested>>,
                                    !.confidence = <<rnd.confidence>>]
                ELSE result
            withEdge ==
                IF Contains(<<"E","D","G","E">>, test_case.test_case_id)
                THEN [withIndicators EXCEPT !.risk_score = <<rnd.edge_score>>,
                                            !.confidence = <<rnd.edge_confidence>>]
                ELSE withIndicators
        IN  Returned(withEdge)

SimulatePerformanceTest(test_case, rnd) ==
    LET max_response == Get(test_case.test_data, "max_allowed_response_time_ms", 5000)
        avg_response == (max_response * rnd.avg_pct) \div 100
        p99_response == IF rnd.exceed
                        THEN (max_response * rnd.exceed_pct) \div 100
                        ELSE (max_response * rnd.p99_pct) \div 100
    IN  Returned([EmptyResult EXCEPT
                    !.max_response_time_ms =
                        <<Max(p99_response, (avg_response * 15) \div 10)>>])

SimulateComplianceTest(test_case, rnd) ==
    LET compliance_met == rnd.compliance_met
        violations == IF ~compliance_met THEN rnd.violations ELSE <<>>
    IN  Returned([EmptyResult EXCEPT !.compliance_met = <<compliance_met>>,
                                     !.violations = <<violations>>])

SimulateFraudDetection(test_case, rnd) ==
    LET expected == test_case.expected_result
    IN  IF Contains(<<"P","e","r","f","o","r","m","a","n","c","e">>, test_case.category)
        THEN SimulatePerformanceTest(test_case, rnd)
        ELSE IF Contains(<<"C","o","m","p","l","i","a","n","c","e">>, test_case.category)
        THEN SimulateComplianceTest(test_case, rnd)
        ELSE SimulateFraudTest(test_case, expected, rnd)

\* ------------------------------------------------------- Result Validator

\* AlertErrors with the two labels exchanged
AlertErrorsLabelsSwapped(expected, actual_result) ==
    IF Has(expected, "fraud_alert_triggered")
    THEN LET expected_alert == expected.fraud_alert_triggered[1]
             actual_alert == Get(actual_result, "fraud_alert_triggered", FALSE)
         IN  IF expected_alert # actual_alert
             THEN IF expected_alert
                  THEN <<<<"F","A","L","S","E"," ","P","O","S","I","T","I","V","E",":"," ","L","e","g","i","t","i","m","a","t","e"," ","t","r","a","n","s","a","c","t","i","o","n"," ","f","l","a","g","g","e","d"," ","(","e","x","p","e","c","t","e","d"," ","n","o"," ","a","l","e","r","t",","," ","g","o","t"," ","a","l","e","r","t",")">>>>
                  ELSE <<<<"F","A","L","S","E"," ","N","E","G","A","T","I","V","E",":"," ","F","r","a","u","d"," ","n","o","t"," ","d","e","t","e","c","t","e","d"," ","(","e","x","p","e","c","t","e","d"," ","a","l","e","r","t",","," ","g","o","t"," ","n","o","n","e",")">>>>
             ELSE <<>>
    ELSE <<>>

AlertErrors(expected, actual_result) ==
    IF Has(expected, "fraud_alert_triggered")
    THEN LET expected_alert == expected.fraud_alert_triggered[1]
             actual_alert == Get(actual_result, "fraud_alert_triggered", FALSE)
         IN  IF expected_alert # actual_alert
             THEN IF expected_alert
                  THEN <<<<"F","A","L","S","E"," ","N","E","G","A","T","I","V","E",":"," ","F","r","a","u","d"," ","n","o","t"," ","d","e","t","e","c","t","e","d"," ","(","e","x","p","e","c","t","e","d"," ","a","l","e","r","t",","," ","g","o","t"," ","n","o","n","e",")">>>>
                  ELSE <<<<"F","A","L","S","E"," ","P","O","S","I","T","I","V","E",":"," ","L","e","g","i","t","i","m","a","t","e"," ","t","r","a","n","s","a","c","t","i","o","n"," ","f","l","a","g","g","e","d"," ","(","e","x","p","e","c","t","e","d"," ","n","o"," ","a","l","e","r","t",","," ","g","o","t"," ","a","l","e","r","t",")">>>>
             ELSE <<>>
    ELSE <<>>

ScoreWarnings(expected, actual_result) ==
    IF Has(expected, "risk_score")
    THEN LET expected_score == expected.risk_score[1].v
             actual_score == Get(actual_result, "risk_score", 0)
         IN  IF Abs(expected_score - actual_score) > 15
             THEN <<<<"R","i","s","k"," ","s","c","o","r","e"," ","v","a","r","i","a","n","c","e",":"," ","e","x","p","e","c","t","e","d"," ","~">> \o IntStr(expected_score)
                    \o <<","," ","g","o","t"," ">> \o
                    (IF Has(actual_result, "risk_score")
                     THEN FloatStr(actual_score) ELSE IntStr(actual_score))>>
             ELSE <<>>
    ELSE <<>>

PerformanceErrors(test_case, actual_result) ==
    IF Contains(<<"P","e","r","f","o","r","m","a","n","c","e">>, test_case.category)
    THEN LET max_allowed == Get(test_case.test_data, "max_allowed_response_time_ms", 5000)
             actual_max == Get(actual_result, "max_response_time_ms", 0)
         IN  IF actual_max > max_allowed
             THEN <<<<"P","e","r","f","o","r","m","a","n","c","e"," ","S","L","A"," ","v","i","o","l","a","t","i","o","n",":"," ">> \o
                    (IF Has(actual_result, "max_response_time_ms")
                     THEN FloatStr(actual_max) ELSE IntStr(actual_max))
                    \o <<"m","s"," ",">"," ">> \o IntStr(max_allowed) \o <<"m","s">>>>
             ELSE <<>>
    ELSE <<>>

\* ComplianceErrors without the test of the category
ComplianceErrorsAnyCategory(test_case, actual_result) ==
    IF ~Get(actual_result, "compliance_met", FALSE)
    THEN <<<<"C","o","m","p","l","i","a","n","c","e"," ","v","a","l","i","d","a","t","i","o","n"," ","f","a","i","l","e","d",":"," ">> \o
           StrOfList(Get(actual_result, "violations", <<>>))>>
    ELSE <<>>

ComplianceErrors(test_case, actual_result) ==
    IF Contains(<<"C","o","m","p","l","i","a","n","c","e">>, test_case.category)
    THEN IF ~Get(actual_result, "compliance_met", FALSE)
         THEN <<<<"C","o","m","p","l","i","a","n","c","e"," ","v","a","l","i","d","a","t","i","o","n"," ","f","a","i","l","e","d",":"," ">> \o
                StrOfList(Get(actual_result, "violations", <<>>))>>
         ELSE <<>>
    ELSE <<>>

\* OverallStatus with a warning failing the test
OverallStatusWarningsFail(errors, warnings) ==
    IF errors # <<>> \/ warnings # <<>> THEN FAILED ELSE PASSED

OverallStatus(errors, warnings) ==
    IF errors # <<>>
    THEN IF \E i \in DOMAIN errors :
               Contains(<<"C","R","I","T","I","C","A","L">>, errors[i]) \/ Contains(<<"F","A","L","S","E"," ","N","E","G","A","T","I","V","E">>, errors[i])
         THEN FAILED
         ELSE FAILED
    ELSE IF warnings # <<>>
    THEN PASSED
    ELSE PASSED

ValidateResult(test_case, actual_result) ==
    LET expected == test_case.expected_result
    IN  IF Has(expected, "risk_score") /\ expected.risk_score[1].ty = "str"
        THEN Raised(IF Has(actual_result, "risk_score")
                    THEN <<"u","n","s","u","p","p","o","r","t","e","d"," ","o","p","e","r","a","n","d"," ","t","y","p","e","(","s",")"," ","f","o","r"," ","-",":"," ","'","s","t","r","'"," ","a","n","d"," ","'","f","l","o","a","t","'">>
                    ELSE <<"u","n","s","u","p","p","o","r","t","e","d"," ","o","p","e","r","a","n","d"," ","t","y","p","e","(","s",")"," ","f","o","r"," ","-",":"," ","'","s","t","r","'"," ","a","n","d"," ","'","i","n","t","'">>)
        ELSE
        LET errors == AlertErrors(expected, actual_result)
                      \o PerformanceErrors(test_case, actual_result)
                      \o ComplianceErrors(test_case, actual_result)
            warnings == ScoreWarnings(expected, actual_result)
        IN  Returned([status |-> OverallStatus(errors, warnings),
                      errors |-> errors, warnings |-> warnings])

\* ------------------------------------------------------- Execution Engine

TestResult(id, status, actual_result, execution_time_ms, errors, warnings) ==
    [test_case_id |-> id, status |-> status, actual_result |-> actual_result,
     execution_time_ms |-> execution_time_ms, errors |-> errors, warnings |-> warnings]

\* the validation_result local of _execute_single_test: unbound when the try
\* block raised before the assignment
ValidationOf(test_case, rnd) ==
    LET oracle == SimulateFraudDetection(test_case, rnd)
    IN  IF oracle.exception # <<>> THEN <<>>
        ELSE LET validation == ValidateResult(test_case, oracle.value[1])
             IN  IF validation.exception # <<>> THEN <<>> ELSE validation.value

\* ExecuteSingleTest whose except branch reports FAILED and keeps no error text
ExecuteSingleTestFailedOnException(test_case, rnd) ==
    LET oracle == SimulateFraudDetection(test_case, rnd)
        failed == TestResult(test_case.test_case_id, FAILED, EmptyResult,
                             rnd.execution_time_ms, <<>>, <<>>)
    IN  IF oracle.exception # <<>> THEN failed
        ELSE
        LET actual_result == oracle.value[1]
            validation == ValidateResult(test_case, actual_result)
        IN  IF validation.exception # <<>> THEN failed
            ELSE TestResult(test_case.test_case_id, validation.value[1].status,
                            actual_result, rnd.execution_time_ms,
                            validation.value[1].errors,
                            validation.value[1].warnings)

ExecuteSingleTest(test_case, rnd) ==
    LET oracle == SimulateFraudDetection(test_case, rnd)
        blocked(e) == TestResult(test_case.test_case_id, BLOCKED, EmptyResult,
                                 rnd.execution_time_ms,
                                 <<<<"T","e","s","t"," ","e","x","e","c","u","t","i","o","n"," ","f","a","i","l","e","d",":"," ">> \o e>>, <<>>)
    IN  IF oracle.exception # <<>> THEN blocked(oracle.exception[1])
        ELSE
        LET actual_result == oracle.value[1]
            validation == ValidateResult(test_case, actual_result)
        IN  IF validation.exception # <<>> THEN blocked(validation.exception[1])
            ELSE TestResult(test_case.test_case_id, validation.value[1].status,
                            actual_result, rnd.execution_time_ms,
                            validation.value[1].errors,
                            validation.value[1].warnings)

\* ---------------------------------------------------------- exact floats

RECURSIVE Gcd(_, _)
Gcd(a, b) == IF b = 0 THEN a ELSE Gcd(b, a % b)

\* the rational n/d in lowest terms, d > 0
Rat(n, d) ==
    LET g == Gcd(Abs(n), d)
    IN  [n |-> n \div g, d |-> d \div g]

RatInt(i) == [n |-> i, d |-> 1]
RatAdd(x, y) ==
    LET g == Gcd(x.d, y.d)
    IN  Rat(x.n * (y.d \div g) + y.n * (x.d \div g), (x.d \div g) * y.d)
RatNeg(x) == [n |-> -x.n, d |-> x.d]
RatSub(x, y) == RatAdd(x, RatNeg(y))
RatMul(x, y) == Rat(x.n * y.n, x.d * y.d)
RatDiv(x, y) == Rat(x.n * y.d, x.d * y.n)
RatLt(x, y) == x.n * y.d < y.n * x.d
RatGe(x, y) == ~RatLt(x, y)
RatGt(x, y) == RatLt(y, x)
RatMin(x, y) == IF RatLt(y, x) THEN y ELSE x

\* round(x, 2) in hundredths: to nearest, ties to even
Round2(x) ==
    LET whole == x.n \div x.d
        scaled == 100 * (x.n % x.d)
        q == 100 * whole + scaled \div x.d
        twice == 2 * (scaled % x.d)
    IN  IF twice < x.d THEN q
        ELSE IF twice > x.d THEN q + 1
        ELSE IF q % 2 = 0 THEN q ELSE q + 1

\* ------------------------------------------------------------ Risk Analyzer

\* risk_weights, in hundredths
WeightDetection == 35
WeightFalsePositive == 20
WeightCompliance == 30
WeightSystem == 15

IsFraudTest(r) ==
    /\ Contains(<<"f","r","a","u","d">>, Lower(r.test_case_id))
    /\ ~Contains(<<"n","e","g">>, Lower(r.test_case_id))
    /\ ~Contains(<<"P","e","r","f","o","r","m","a","n","c","e">>, r.test_case_id)
    /\ ~Contains(<<"C","o","m","p","l","i","a","n","c","e">>, r.test_case_id)

IsNegativeTest(r) == Contains(<<"n","e","g">>, Lower(r.test_case_id))

IsComplianceTest(r) ==
    Contains(<<"C","o","m","p","l","i","a","n","c","e">>, r.test_case_id) \/ Contains(<<"C","O","M","P">>, r.test_case_id)

IsPerformanceTest(r) ==
    Contains(<<"P","e","r","f","o","r","m","a","n","c","e">>, r.test_case_id) \/ Contains(<<"P","E","R","F">>, r.test_case_id)

IsFalseNegative(r) ==
    r.status = FAILED /\ Contains(<<"F","A","L","S","E"," ","N","E","G","A","T","I","V","E">>, Join(<<" ">>, r.errors))

IsFalsePositive(r) ==
    r.status = FAILED /\ Contains(<<"F","A","L","S","E"," ","P","O","S","I","T","I","V","E">>, Join(<<" ">>, r.errors))

\* the k-th branch of the detection curve, as an expression of fn_rate
DetectionSegment(k, fn_rate) ==
    IF k = 1 THEN RatMul(fn_rate, RatInt(400))
    ELSE IF k = 2
    THEN RatAdd(RatInt(20), RatMul(RatSub(fn_rate, Rat(5, 100)), RatInt(1200)))
    ELSE RatAdd(RatInt(80), RatMul(RatSub(fn_rate, Rat(10, 100)), RatInt(200)))

\* the detection curve without the final min(100, risk_score)
DetectionCurveUnclamped(false_negatives, n) ==
    LET fn_rate == Rat(false_negatives, n)
    IN  IF RatLt(fn_rate, Rat(5, 100)) THEN DetectionSegment(1, fn_rate)
        ELSE IF RatLt(fn_rate, Rat(10, 100)) THEN DetectionSegment(2, fn_rate)
        ELSE DetectionSegment(3, fn_rate)

\* the detection curve at fn_rate = false_negatives / n
DetectionCurve(false_negatives, n) ==
    LET fn_rate == Rat(false_negatives, n)
        risk_score ==
            IF RatLt(fn_rate, Rat(5, 100)) THEN DetectionSegment(1, fn_rate)
            ELSE IF RatLt(fn_rate, Rat(10, 100)) THEN DetectionSegment(2, fn_rate)
            ELSE DetectionSegment(3, fn_rate)
    IN  RatMin(RatInt(100), risk_score)

CalculateDetectionRisk(rs) ==
    LET fraud_tests == SelectSeq(rs, IsFraudTest)
    IN  IF fraud_tests = <<>> THEN RatInt(0)
        ELSE DetectionCurve(Len(SelectSeq(fraud_tests, IsFalseNegative)), Len(fraud_tests))

\* the k-th branch of the false-positive curve, as an expression of fp_rate
FalsePositiveSegment(k, fp_rate) ==
    IF k = 1 THEN RatMul(fp_rate, RatInt(300))
    ELSE IF k = 2
    THEN RatAdd(RatInt(30), RatMul(RatSub(fp_rate, Rat(10, 100)), RatInt(500)))
    ELSE RatAdd(RatInt(80), RatMul(RatSub(fp_rate, Rat(20, 100)), RatInt(100)))

\* the false-positive curve at fp_rate = false_positives / n
FalsePositiveCurve(false_positives, n) ==
    LET fp_rate == Rat(false_positives, n)
        risk_score ==
            IF RatLt(fp_rate, Rat(10, 100)) THEN FalsePositiveSegment(1, fp_rate)
            ELSE IF RatLt(fp_rate, Rat(20, 100)) THEN FalsePositiveSegment(2, fp_rate)
            ELSE FalsePositiveSegment(3, fp_rate)
    IN  RatMin(RatInt(100), risk_score)

CalculateFalsePositiveRisk(rs) ==
    LET negative_tests == SelectSeq(rs, IsNegativeTest)
    IN  IF negative_tests = <<>> THEN RatInt(0)
        ELSE FalsePositiveCurve(Len(SelectSeq(negative_tests, IsFalsePositive)), Len(negative_tests))

ComplianceStep(failed_compliance) ==
    IF failed_compliance = 0 THEN RatInt(0)
    ELSE IF failed_compliance = 1 THEN RatInt(60)
    ELSE IF failed_compliance = 2 THEN RatInt(85)
    ELSE RatInt(100)

\* the compliance risk with every compliance result that has not PASSED counted
\* as a failure
CalculateComplianceRiskNotPassed(rs) ==
    LET compliance_tests == SelectSeq(rs, IsComplianceTest)
        isFailed(r) == r.status # PASSED
    IN  IF compliance_tests = <<>> THEN RatInt(0)
        ELSE ComplianceStep(Len(SelectSeq(compliance_tests, isFailed)))

CalculateComplianceRisk(rs) ==
    LET compliance_tests == SelectSeq(rs, IsComplianceTest)
        isFailed(r) == r.status = FAILED
    IN  IF compliance_tests = <<>> THEN RatInt(0)
        ELSE ComplianceStep(Len(SelectSeq(compliance_tests, isFailed)))

\* the k-th branch of the system curve, as an expression of failure_rate
SystemSegment(k, failure_rate) ==
    IF k = 1 THEN RatMul(failure_rate, RatInt(1000))
    ELSE IF k = 2
    THEN RatAdd(RatInt(20), RatMul(RatSub(failure_rate, Rat(2, 100)), RatInt(1333)))
    ELSE RatAdd(RatInt(60), RatMul(RatSub(failure_rate, Rat(5, 100)), RatInt(800)))

\* the system curve at failure_rate = failures / total_tests; every branch
\* returns, so the min(100, ...) after the if/else is never reached
SystemCurve(failures, total_tests) ==
    LET failure_rate == Rat(failures, total_tests)
    IN  IF RatLt(failure_rate, Rat(2, 100)) THEN SystemSegment(1, failure_rate)
        ELSE IF RatLt(failure_rate, Rat(5, 100)) THEN SystemSegment(2, failure_rate)
        ELSE SystemSegment(3, failure_rate)

CalculateSystemRisk(rs) ==
    LET performance_tests == SelectSeq(rs, IsPerformanceTest)
        isFailed(r) == r.status = FAILED
        isBlocked(r) == r.status = BLOCKED
    IN  IF performance_tests = <<>> THEN RatInt(0)
        ELSE SystemCurve(Len(SelectSeq(performance_tests, isFailed)) + Len(SelectSeq(rs, isBlocked)), Len(rs))

CategorizeRisk(risk_score) ==
    IF RatGe(risk_score, RatInt(75)) THEN CRITICAL
    ELSE IF RatGe(risk_score, RatInt(50)) THEN HIGH
    ELSE IF RatGe(risk_score, RatInt(25)) THEN MEDIUM
    ELSE LOW

RecDetectionCritical == "CRITICAL: High false negative rate detected."
RecDetectionHigh == "HIGH: Elevated false negative rate."
RecDetectionMedium == "MEDIUM: Some fraud patterns being missed."
RecFalsePositiveCritical == "CRITICAL: High false positive rate causing customer friction."
RecFalsePositiveHigh == "HIGH: Elevated false positive rate."
RecComplianceBlocking == "BLOCKING: Compliance violations detected."
RecComplianceConcerns == "Compliance concerns identified."
RecSystemCritical == "CRITICAL: System reliability issues detected."
RecSystemConcerns == "System performance concerns."
RecPassRate == "Overall test pass rate below 85%."
RecApproved == "All risk metrics within acceptable ranges."

\* the recommendations every rule but the last one appends
ThresholdRecommendations(detection_risk, false_positive_risk, compliance_risk, system_risk, rs) ==
    LET isFailed(r) == r.status = FAILED
        failed_count == Len(SelectSeq(rs, isFailed))
        total_count == Len(rs)
    IN  (IF RatGe(detection_risk, RatInt(75)) THEN <<RecDetectionCritical>>
         ELSE IF RatGe(detection_risk, RatInt(50)) THEN <<RecDetectionHigh>>
         ELSE IF RatGe(detection_risk, RatInt(25)) THEN <<RecDetectionMedium>>
         ELSE <<>>)
        \o
        (IF RatGe(false_positive_risk, RatInt(75)) THEN <<RecFalsePositiveCritical>>
         ELSE IF RatGe(false_positive_risk, RatInt(50)) THEN <<RecFalsePositiveHigh>>
         ELSE <<>>)
        \o
        (IF RatGe(compliance_risk, RatInt(60)) THEN <<RecComplianceBlocking>>
         ELSE IF RatGe(compliance_risk, RatInt(30)) THEN <<RecComplianceConcerns>>
         ELSE <<>>)
        \o
        (IF RatGe(system_risk, RatInt(60)) THEN <<RecSystemCritical>>
         ELSE IF RatGe(system_risk, RatInt(30)) THEN <<RecSystemConcerns>>
         ELSE <<>>)
        \o
        (IF RatGt(Rat(failed_count, total_count), Rat(15, 100)) THEN <<RecPassRate>>
         ELSE <<>>)

\* the recommendations with the approved message appended unconditionally
GenerateRecommendationsAlwaysApproved(detection_risk, false_positive_risk, compliance_risk, system_risk, rs) ==
    IF Len(rs) = 0 THEN Raised("ZeroDivisionError")
    ELSE Returned(ThresholdRecommendations(detection_risk, false_positive_risk,
                                           compliance_risk, system_risk, rs)
                  \o <<RecApproved>>)

\* failed_count / total_count divides by zero on an empty list
GenerateRecommendations(detection_risk, false_positive_risk, compliance_risk, system_risk, rs) ==
    IF Len(rs) = 0 THEN Raised("ZeroDivisionError")
    ELSE LET recommendations ==
                 ThresholdRecommendations(detection_risk, false_positive_risk,
                                          compliance_risk, system_risk, rs)
         IN  Returned(IF recommendations = <<>> THEN <<RecApproved>> ELSE recommendations)

\* the weighted score with the false-positive term subtracted
WeightedScoreFalsePositiveSubtracted(detection_risk, false_positive_risk, compliance_risk, system_risk) ==
    RatAdd(RatSub(RatMul(detection_risk, Rat(WeightDetection, 100)),
                  RatMul(false_positive_risk, Rat(WeightFalsePositive, 100))),
           RatAdd(RatMul(compliance_risk, Rat(WeightCompliance, 100)),
                  RatMul(system_risk, Rat(WeightSystem, 100))))

WeightedScore(detection_risk, false_positive_risk, compliance_risk, system_risk) ==
    RatAdd(RatAdd(RatMul(detection_risk, Rat(WeightDetection, 100)),
                  RatMul(false_positive_risk, Rat(WeightFalsePositive, 100))),
           RatAdd(RatMul(compliance_risk, Rat(WeightCompliance, 100)),
                  RatMul(system_risk, Rat(WeightSystem, 100))))

RiskAssessment(overall, level, detection, false_positive, compliance, system, recs) ==
    [overall_risk_score |-> overall, risk_level |-> level, detection_risk |-> detection,
     false_positive_risk |-> false_positive, compliance_risk |-> compliance,
     system_risk |-> system, recommendations |-> recs]

CalculateRisk(rs) ==
    LET detection_risk == CalculateDetectionRisk(rs)
        false_positive_risk == CalculateFalsePositiveRisk(rs)
        compliance_risk == CalculateComplianceRisk(rs)
        system_risk == CalculateSystemRisk(rs)
        overall_risk_score ==
            WeightedScore(detection_risk, false_positive_risk, compliance_risk, system_risk)
        risk_level == CategorizeRisk(overall_risk_score)
        recommendations ==
            GenerateRecommendations(detection_risk, false_positive_risk,
                                    compliance_risk, system_risk, rs)
    IN  IF recommendations.exception # <<>> THEN Raised(recommendations.exception[1])
        ELSE Returned(RiskAssessment(Round2(overall_risk_score), risk_level,
                                     Round2(detection_risk), Round2(false_positive_risk),
                                     Round2(compliance_risk), Round2(system_risk),
                                     recommendations.value[1]))

\* _get_deployment_recommendation without the compliance rule
AnalyzerGetDeploymentRecommendationByLevel(assessment) ==
    IF assessment.risk_level = CRITICAL THEN "DO NOT DEPLOY - Critical risk level"
    ELSE IF assessment.risk_level = HIGH
    THEN "DEPLOY WITH CAUTION - High risk, requires executive approval"
    ELSE IF assessment.risk_level = MEDIUM
    THEN "CONDITIONAL APPROVAL - Medium risk, monitor closely post-deployment"
    ELSE "APPROVED FOR DEPLOYMENT - Low risk"

\* FraudRiskAnalyzer._get_deployment_recommendation(assessment); the returned
\* strings without their leading emoji
AnalyzerGetDeploymentRecommendation(assessment) ==
    IF assessment.compliance_risk >= 6000
    THEN "DO NOT DEPLOY - Compliance violations (BLOCKING)"
    ELSE IF assessment.risk_level = CRITICAL THEN "DO NOT DEPLOY - Critical risk level"
    ELSE IF assessment.risk_level = HIGH
    THEN "DEPLOY WITH CAUTION - High risk, requires executive approval"
    ELSE IF assessment.risk_level = MEDIUM
    THEN "CONDITIONAL APPROVAL - Medium risk, monitor closely post-deployment"
    ELSE "APPROVED FOR DEPLOYMENT - Low risk"

\* generate_risk_report(assessment): the overall assessment and the breakdown;
\* the visualization is left out.  The stored scores are hundredths, so score
\* times weight is exact.
GenerateRiskReport(assessment) ==
    LET entry(score, weight) ==
            [score |-> score, weight |-> Rat(weight, 100),
             contribution |-> RatMul(Rat(score, 100), Rat(weight, 100))]
    IN  [overall_assessment |->
             [risk_score |-> assessment.overall_risk_score,
              risk_level |-> assessment.risk_level,
              deployment_recommendation |->
                  AnalyzerGetDeploymentRecommendation(assessment)],
         risk_breakdown |->
             [detection_risk |-> entry(assessment.detection_risk, WeightDetection),
              false_positive_risk |->
                  entry(assessment.false_positive_risk, WeightFalsePositive),
              compliance_risk |-> entry(assessment.compliance_risk, WeightCompliance),
              system_risk |-> entry(assessment.system_risk, WeightSystem)],
         recommendations |-> assessment.recommendations]

\* ------------------------------------------------------ Accuracy Aggregator

CalculateAccuracyMetrics(rs) ==
    LET fraud_tests == SelectSeq(rs, IsFraudTest)
        legit_tests == SelectSeq(rs, IsNegativeTest)
        isPassed(r) == r.status = PASSED
        isFailed(r) == r.status = FAILED
        true_positives == Len(SelectSeq(fraud_tests, isPassed))
        false_negatives == Len(SelectSeq(fraud_tests, isFailed))
        true_negatives == Len(SelectSeq(legit_tests, isPassed))
        false_positives == Len(SelectSeq(legit_tests, isFailed))
        total_fraud == Len(fraud_tests)
        total_legit == Len(legit_tests)
        precision == IF true_positives + false_positives > 0
                     THEN Rat(true_positives, true_positives + false_positives)
                     ELSE RatInt(0)
        recall == IF true_positives + false_negatives > 0
                  THEN Rat(true_positives, true_positives + false_negatives)
                  ELSE RatInt(0)
        f1_score == IF RatGt(RatAdd(precision, recall), RatInt(0))
                    THEN RatDiv(RatMul(RatInt(2), RatMul(precision, recall)),
                                RatAdd(precision, recall))
                    ELSE RatInt(0)
    IN  [true_positives |-> true_positives, false_positives |-> false_positives,
         true_negatives |-> true_negatives, false_negatives |-> false_negatives,
         total_fraud_tests |-> total_fraud, total_legitimate_tests |-> total_legit,
         precision |-> Round2(RatMul(precision, RatInt(100))),
         recall |-> Round2(RatMul(recall, RatInt(100))),
         f1_score |-> Round2(RatMul(f1_score, RatInt(100))),
         false_positive_rate |-> IF total_legit > 0
                                 THEN Round2(Rat(false_positives * 100, total_legit))
                                 ELSE 0,
         false_negative_rate |-> IF total_fraud > 0
                                 THEN Round2(Rat(false_negatives * 100, total_fraud))
                                 ELSE 0]

RECURSIVE SumSeq(_)
SumSeq(s) == IF s = <<>> THEN 0 ELSE Head(s) + SumSeq(Tail(s))

\* the performance metrics with the percentiles read from the times in
\* execution order (response_times.sort() left out)
CalculatePerformanceMetricsUnsorted(rs) ==
    LET positive(r) == r.execution_time_ms > 0
        timed == SelectSeq(rs, positive)
        response_times == [i \in 1..Len(timed) |-> timed[i].execution_time_ms]
        sorted == SortSeq(response_times, LAMBDA a, b : a < b)
        n == Len(response_times)
        p95_index == (n * 95) \div 100
        p99_index == (n * 99) \div 100
    IN  IF n = 0
        THEN [avg_response_time_ms |-> 0, min_response_time_ms |-> 0,
              max_response_time_ms |-> 0, p95_response_time_ms |-> 0,
              p99_response_time_ms |-> 0]
        ELSE [avg_response_time_ms |-> Round2(Rat(SumSeq(response_times), n)),
              min_response_time_ms |-> 100 * sorted[1],
              max_response_time_ms |-> 100 * sorted[n],
              p95_response_time_ms |->
                  100 * (IF p95_index < n THEN response_times[p95_index + 1]
                         ELSE sorted[n]),
              p99_response_time_ms |->
                  100 * (IF p99_index < n THEN response_times[p99_index + 1]
                         ELSE sorted[n])]

\* times in ms; the returned values in hundredths of a ms
CalculatePerformanceMetrics(rs) ==
    LET positive(r) == r.execution_time_ms > 0
        timed == SelectSeq(rs, positive)
        response_times ==
            SortSeq([i \in 1..Len(timed) |-> timed[i].execution_time_ms],
                    LAMBDA a, b : a < b)
        n == Len(response_times)
        max_response == response_times[n]
        p95_index == (n * 95) \div 100
        p99_index == (n * 99) \div 100
    IN  IF n = 0
        THEN [avg_response_time_ms |-> 0, min_response_time_ms |-> 0,
              max_response_time_ms |-> 0, p95_response_time_ms |-> 0,
              p99_response_time_ms |-> 0]
        ELSE [avg_response_time_ms |-> Round2(Rat(SumSeq(response_times), n)),
              min_response_time_ms |-> 100 * response_times[1],
              max_response_time_ms |-> 100 * max_response,
              p95_response_time_ms |->
                  100 * (IF p95_index < n THEN response_times[p95_index + 1]
                         ELSE max_response),
              p99_response_time_ms |->
                  100 * (IF p99_index < n THEN response_times[p99_index + 1]
                         ELSE max_response)]

\* ------------------------------------------------------ Deployment Decision

\* the returned strings, without the emoji that leads all but the first
DecisionUnknown == "UNKNOWN - Risk assessment not completed"
DecisionCritical == "DO NOT DEPLOY - Critical failures detected"
DecisionHighRisk == "DO NOT DEPLOY - High risk score"
DecisionCaution == "DEPLOY WITH CAUTION - Medium risk, requires approval"
DecisionApproved == "APPROVED FOR DEPLOYMENT - Low risk"

\* IsCriticalFailure with the test the validator makes of its errors
IsCriticalFailureOrFalseNegative(r) ==
    r.status = FAILED /\ \E i \in DOMAIN r.errors :
        Contains(<<"C","R","I","T","I","C","A","L">>, r.errors[i]) \/ Contains(<<"F","A","L","S","E"," ","N","E","G","A","T","I","V","E">>, r.errors[i])

IsCriticalFailure(r) ==
    r.status = FAILED /\ \E i \in DOMAIN r.errors : Contains(<<"C","R","I","T","I","C","A","L">>, r.errors[i])

\* GetDeploymentRecommendation with the score thresholds tested before the
\* critical failures
GetDeploymentRecommendationScoreFirst(assessment, rs) ==
    IF assessment = <<>> THEN DecisionUnknown
    ELSE LET risk_score == assessment[1].overall_risk_score
             critical_failures == Len(SelectSeq(rs, IsCriticalFailure))
         IN  IF risk_score >= 7500 THEN DecisionHighRisk
             ELSE IF risk_score >= 5000 THEN DecisionCaution
             ELSE IF critical_failures > 0 THEN DecisionCritical
             ELSE DecisionApproved

\* FraudQAAgent.get_deployment_recommendation over the agent's fields
GetDeploymentRecommendation(assessment, rs) ==
    IF assessment = <<>> THEN DecisionUnknown
    ELSE LET risk_score == assessment[1].overall_risk_score
             critical_failures == Len(SelectSeq(rs, IsCriticalFailure))
         IN  IF critical_failures > 0 THEN DecisionCritical
             ELSE IF risk_score >= 7500 THEN DecisionHighRisk
             ELSE IF risk_score >= 5000 THEN DecisionCaution
             ELSE DecisionApproved

\* ----------------------------------------------------- Hallucination Checker

\* the random draws of one verification pass: the indicators the simulated
\* grounding rejects, the 3% contradiction, the 5% injected finding
NoHallucinationDraw == [invalid |-> {}, contradiction |-> FALSE, inject |-> <<>>]

HallucinationDraws ==
    {NoHallucinationDraw,
     [NoHallucinationDraw EXCEPT !.invalid = {"high_value"}],
     [NoHallucinationDraw EXCEPT !.contradiction = TRUE],
     [NoHallucinationDraw EXCEPT !.inject = <<[type |-> "invalid_logic", severity |-> LOW]>>]}

Finding(type, severity, field) == [type |-> type, severity |-> severity, field |-> field]

ValidateFraudIndicators(indicators, h) ==
    LET rejected(indicator) ==
            IF indicator = "high_value" THEN indicator \in h.invalid
            ELSE IF indicator = "unusual_time" THEN indicator \in h.invalid
            ELSE FALSE
    IN  SelectSeq(indicators, rejected)

ValidateRiskScore(score, actual_result) ==
    IF score < 0 \/ score > 100
    THEN <<Finding("incorrect_calculations", CRITICAL, "risk_score")>>
    ELSE LET alert_triggered == Get(actual_result, "fraud_alert_triggered", FALSE)
         IN  IF score > 90 /\ ~alert_triggered
             THEN <<Finding("invalid_logic", HIGH, "risk_score")>>
             ELSE IF score < 30 /\ alert_triggered
             THEN <<Finding("invalid_logic", HIGH, "risk_score")>>
             ELSE <<>>

DetectContradictions(actual_result, h) ==
    (IF Has(actual_result, "fraud_indicators")
     THEN LET indicators == actual_result.fraud_indicators[1]
              cites(name) == \E i \in DOMAIN indicators : indicators[i] = name
          IN  IF cites("first_international") /\ cites("high_international_volume")
              THEN <<Finding("contradictory_statements", HIGH, "fraud_indicators")>>
              ELSE <<>>
     ELSE <<>>)
    \o
    (IF h.contradiction
     THEN <<Finding("contradictory_statements", MEDIUM, "explanation")>>
     ELSE <<>>)

\* confidence in hundredths
ValidateConfidence(actual_result) ==
    LET confidence == Get(actual_result, "confidence", 0)
        risk_score == Get(actual_result, "risk_score", 0)
    IN  IF risk_score > 80 /\ confidence < 50
        THEN <<Finding("invalid_logic", MEDIUM, "confidence")>>
        ELSE IF risk_score < 30 /\ confidence > 90
        THEN <<Finding("invalid_logic", MEDIUM, "confidence")>>
        ELSE <<>>

DetectHallucinations(test_result, h) ==
    LET actual == test_result.actual_result
        invalid_indicators ==
            IF Has(actual, "fraud_indicators")
            THEN ValidateFraudIndicators(actual.fraud_indicators[1], h)
            ELSE <<>>
        detected ==
            [i \in 1..Len(invalid_indicators) |->
                Finding("misattributed_factors", HIGH, "fraud_indicators")]
            \o (IF Has(actual, "risk_score")
                THEN ValidateRiskScore(actual.risk_score[1], actual) ELSE <<>>)
            \o DetectContradictions(actual, h)
            \o (IF Has(actual, "confidence") THEN ValidateConfidence(actual) ELSE <<>>)
    IN  IF h.inject # <<>> /\ detected = <<>>
        THEN <<Finding(h.inject[1].type, h.inject[1].severity, "explanation")>>
        ELSE detected

\* the severity with MEDIUM looked for before HIGH
CalculateSeverityMediumFirst(hallucinations) ==
    LET has(severity) == \E i \in DOMAIN hallucinations : hallucinations[i].severity = severity
    IN  IF hallucinations = <<>> THEN "NONE"
        ELSE IF has(CRITICAL) THEN CRITICAL
        ELSE IF has(MEDIUM) THEN MEDIUM
        ELSE IF has(HIGH) THEN HIGH
        ELSE LOW

CalculateSeverity(hallucinations) ==
    LET has(severity) == \E i \in DOMAIN hallucinations : hallucinations[i].severity = severity
    IN  IF hallucinations = <<>> THEN "NONE"
        ELSE IF has(CRITICAL) THEN CRITICAL
        ELSE IF has(HIGH) THEN HIGH
        ELSE IF has(MEDIUM) THEN MEDIUM
        ELSE LOW

SeverityScore(severity) ==
    IF severity = CRITICAL THEN 95
    ELSE IF severity = HIGH THEN 85
    ELSE IF severity = MEDIUM THEN 70
    ELSE IF severity = LOW THEN 60
    ELSE 50

\* in hundredths
CalculateConfidence(hallucinations) ==
    IF hallucinations = <<>> THEN 0
    ELSE Round2(Rat(SumSeq([i \in 1..Len(hallucinations) |->
                                SeverityScore(hallucinations[i].severity)]),
                    100 * Len(hallucinations)))

HallucinationCheck(id, hallucinations, severity, confidence) ==
    [test_case_id |-> id, hallucinations_detected |-> hallucinations,
     severity |-> severity, confidence_score |-> confidence]

\* verify_results without the `continue` for Performance and Compliance ids
VerifyResultsWithoutSkip(rs, hs) ==
    LET checked(i) == DetectHallucinations(rs[i], hs[i]) # <<>>
        flagged == SelectSeq([i \in 1..Len(rs) |-> i], checked)
    IN  [k \in 1..Len(flagged) |->
            LET hallucinations == DetectHallucinations(rs[flagged[k]], hs[flagged[k]])
            IN  HallucinationCheck(rs[flagged[k]].test_case_id, hallucinations,
                                   CalculateSeverity(hallucinations),
                                   CalculateConfidence(hallucinations))]

\* hs[i] holds the random draws made while rs[i] is examined
VerifyResults(rs, hs) ==
    LET checked(i) ==
            /\ ~(Contains(<<"P","e","r","f","o","r","m","a","n","c","e">>, rs[i].test_case_id)
                 \/ Contains(<<"C","o","m","p","l","i","a","n","c","e">>, rs[i].test_case_id))
            /\ DetectHallucinations(rs[i], hs[i]) # <<>>
        flagged == SelectSeq([i \in 1..Len(rs) |-> i], checked)
    IN  [k \in 1..Len(flagged) |->
            LET hallucinations == DetectHallucinations(rs[flagged[k]], hs[flagged[k]])
            IN  HallucinationCheck(rs[flagged[k]].test_case_id, hallucinations,
                                   CalculateSeverity(hallucinations),
                                   CalculateConfidence(hallucinations))]

\* ------------------------------------------------- FraudQAAgent: one cycle

Init ==
    /\ test_cases = <<>>
    /\ test_results = <<>>
    /\ hallucination_checks = <<>>
    /\ risk_assessment = <<>>
    /\ pc = "idle"
    /\ results = <<>>
    /\ validation_result = <<>>
    /\ raised = None
    /\ accuracy_metrics = <<>>
    /\ performance_metrics = <<>>
    /\ recommendation = None

\* run_full_qa_cycle, step 1: self.test_cases = self.design_test_cases(...)
DesignTestCases ==
    /\ pc = "idle"
    /\ raised = None
    /\ recommendation = None
    /\ \E suite \in Suites : test_cases' = suite
    /\ results' = <<>>
    /\ pc' = "execute"
    /\ UNCHANGED <<test_results, hallucination_checks, risk_assessment,
                   validation_result, raised, accuracy_metrics,
                   performance_metrics, recommendation>>

\* execute_test_suite: one iteration of the loop over test_cases
ExecuteTest ==
    /\ pc = "execute"
    /\ Len(results) < Len(test_cases)
    /\ \E rnd \in RandomDraws :
         LET test_case == test_cases[Len(results) + 1]
         IN  /\ results' = Append(results, ExecuteSingleTest(test_case, rnd))
             /\ validation_result' = ValidationOf(test_case, rnd)
    /\ UNCHANGED <<test_cases, test_results, hallucination_checks, risk_assessment,
                   pc, raised, accuracy_metrics,
                   performance_metrics, recommendation>>

\* FinishExecution with the blocked results left out of the returned list
FinishExecutionWithoutBlocked ==
    /\ pc = "execute"
    /\ Len(results) = Len(test_cases)
    /\ test_results' = SelectSeq(results, LAMBDA r : r.status # BLOCKED)
    /\ pc' = "hallucinations"
    /\ UNCHANGED <<test_cases, hallucination_checks, risk_assessment, results,
                   validation_result, raised, accuracy_metrics,
                   performance_metrics, recommendation>>

\* FinishExecution taken as soon as one test case has been executed
FinishExecutionEarly ==
    /\ pc = "execute"
    /\ Len(results) >= Min(1, Len(test_cases))
    /\ test_results' = results
    /\ pc' = "hallucinations"
    /\ UNCHANGED <<test_cases, hallucination_checks, risk_assessment, results,
                   validation_result, raised, accuracy_metrics,
                   performance_metrics, recommendation>>

\* execute_test_suite returns; step 2: self.test_results = ...
FinishExecution ==
    /\ pc = "execute"
    /\ Len(results) = Len(test_cases)
    /\ test_results' = results
    /\ pc' = "hallucinations"
    /\ UNCHANGED <<test_cases, hallucination_checks, risk_assessment, results,
                   validation_result, raised, accuracy_metrics,
                   performance_metrics, recommendation>>

\* step 3: self.hallucination_checks = self.check_hallucinations(self.test_results)
CheckHallucinations ==
    /\ pc = "hallucinations"
    /\ \E h \in HallucinationDraws :
         \* one draw for every result of the cycle
         hallucination_checks' = VerifyResults(test_results, [i \in DOMAIN test_results |-> h])
    /\ pc' = "risk"
    /\ UNCHANGED <<test_cases, test_results, risk_assessment, results,
                   validation_result, raised, accuracy_metrics,
                   performance_metrics, recommendation>>

\* step 4: self.risk_assessment = self.analyze_fraud_risk(self.test_results);
\* an exception leaves run_full_qa_cycle with the fields as they are
AnalyzeFraudRisk ==
    /\ pc = "risk"
    /\ LET outcome == CalculateRisk(test_results)
       IN  IF outcome.exception # <<>>
           THEN /\ raised' = outcome.exception[1]
                /\ pc' = "idle"
                /\ UNCHANGED risk_assessment
           ELSE /\ risk_assessment' = outcome.value
                /\ pc' = "summary"
                /\ UNCHANGED raised
    /\ UNCHANGED <<test_cases, test_results, hallucination_checks, results,
                   validation_result, accuracy_metrics,
                   performance_metrics, recommendation>>

\* step 5: summary = self.generate_summary()
GenerateSummary ==
    /\ pc = "summary"
    /\ accuracy_metrics' = <<CalculateAccuracyMetrics(test_results)>>
    /\ performance_metrics' = <<CalculatePerformanceMetrics(test_results)>>
    /\ pc' = "report"
    /\ UNCHANGED <<test_cases, test_results, hallucination_checks, risk_assessment,
                   results, validation_result, raised, recommendation>>

\* step 6: report = self.build_report(summary); return report
BuildReport ==
    /\ pc = "report"
    /\ pc' = "done"
    /\ UNCHANGED <<test_cases, test_results, hallucination_checks, risk_assessment,
                   results, validation_result, raised, accuracy_metrics,
                   performance_metrics, recommendation>>

\* agent.get_deployment_recommendation(), called once the cycle has ended
CallGetDeploymentRecommendation ==
    /\ pc \in {"idle", "done", "call"}
    /\ recommendation = None
    /\ recommendation' = GetDeploymentRecommendation(risk_assessment, test_results)
    /\ UNCHANGED <<test_cases, test_results, hallucination_checks, risk_assessment,
                   pc, results, validation_result, raised, accuracy_metrics,
                   performance_metrics>>

Next ==
    \/ DesignTestCases
    \/ ExecuteTest
    \/ FinishExecution
    \/ CheckHallucinations
    \/ AnalyzeFraudRisk
    \/ GenerateSummary
    \/ BuildReport
    \/ CallGetDeploymentRecommendation

Spec == Init /\ [][Next]_vars

\* ------------------------------------- calculate_risk on a given result list

\* results the engine returns
fraudMissed == ExecuteSingleTest(tcFraud, [DefaultDraw EXCEPT !.correct = FALSE])
fraudDetected == ExecuteSingleTest(tcFraud, DefaultDraw)
fraudBlocked == ExecuteSingleTest(tcWire, DefaultDraw)
legitFlagged == ExecuteSingleTest(tcNeg, [DefaultDraw EXCEPT !.correct = FALSE])
legitCleared == ExecuteSingleTest(tcNeg, DefaultDraw)
complianceFailed == ExecuteSingleTest(tcComp, [DefaultDraw EXCEPT !.compliance_met = FALSE])
performanceFailed == ExecuteSingleTest(tcPerf, [DefaultDraw EXCEPT !.exceed = TRUE])
compliancePassed == ExecuteSingleTest(tcComp, DefaultDraw)
performancePassed == ExecuteSingleTest(tcPerf, DefaultDraw)
\* the validation of a Compliance case with a str risk_score_min raised
complianceBlocked ==
    ExecuteSingleTest([tcAml EXCEPT !.test_case_id = <<"T","C","-","C","O","M","P","-","A","M","L","-","0","0","5">>], DefaultDraw)

ResultKinds ==
    <<fraudMissed, fraudDetected, fraudBlocked, legitFlagged, complianceFailed,
      performanceFailed>>

Replicate(r, n) == [i \in 1..n |-> r]

RECURSIVE Runs(_, _)
\* counts[k] copies of ResultKinds[k], for k = from .. Len(ResultKinds)
Runs(counts, from) ==
    IF from > Len(ResultKinds) THEN <<>>
    ELSE Replicate(ResultKinds[from], counts[from]) \o Runs(counts, from + 1)

\* how many cleared legitimate transactions follow the other results
PadSizes == {0, MaxPad - 1, MaxPad}

\* the lists calculate_risk is applied to.  Mixed lists: MaxRun results of each
\* kind that is present, then a run of cleared legitimate transactions.  Lists of one
\* category of test: up to MaxFailures results of the first kind of a pair, the
\* rest of the second kind (a caller may also pass a result with status SKIPPED).
\* Lists with three execution times: up to MaxFailures results that took 200 ms,
\* then results that took 100 ms, then up to MaxRun results whose clock
\* difference was 0.  Lists that start with the failed result of a Compliance
\* case whose JSON gave no test_id (the id defaults to TC-GROQ-{counter}) and
\* should_detect false.
RiskInputs ==
    {Runs(counts, 1) \o Replicate(legitCleared, pad) :
        counts \in [1..Len(ResultKinds) -> {0, MaxRun}], pad \in PadSizes}
    \cup
    {Replicate(pair[1], k) \o Replicate(pair[2], n - k) :
        pair \in {<<fraudMissed, fraudDetected>>, <<legitFlagged, legitCleared>>,
                  <<complianceFailed, compliancePassed>>,
                  <<complianceFailed, complianceBlocked>>,
                  <<complianceFailed, [compliancePassed EXCEPT !.status = SKIPPED]>>,
                  <<performanceFailed, performancePassed>>},
        n \in {5, 10, 20, 25, 50}, k \in 0..MaxFailures}
    \cup
    {Replicate([fraudDetected EXCEPT !.execution_time_ms = 200], slow)
        \o Replicate(fraudDetected, n - slow - zero)
        \o Replicate([legitCleared EXCEPT !.execution_time_ms = 0], zero) :
        n \in {3, 21, 101}, slow \in 0..MaxFailures, zero \in 0..MaxRun}
    \cup
    {<<ExecuteSingleTest([tcKyc EXCEPT !.test_case_id = <<"T","C","-","G","R","O","Q","-","0","0","9">>,
                                        !.expected_result = Expected(FALSE, Num(75))],
                         [DefaultDraw EXCEPT !.compliance_met = FALSE])>>
        \o Replicate(fraudDetected, n) : n \in 0..MaxRun}

InitRisk ==
    /\ test_cases = <<>>
    /\ test_results \in RiskInputs
    /\ hallucination_checks = <<>>
    /\ risk_assessment = <<>>
    /\ pc = "call"
    /\ results = <<>>
    /\ validation_result = <<>>
    /\ raised = None
    /\ accuracy_metrics = <<>>
    /\ performance_metrics = <<>>
    /\ recommendation = None

\* FraudRiskAnalyzer().calculate_risk(test_results)
CallCalculateRisk ==
    /\ pc = "call"
    /\ risk_assessment = <<>>
    /\ raised = None
    /\ LET outcome == CalculateRisk(test_results)
       IN  IF outcome.exception # <<>>
           THEN raised' = outcome.exception[1] /\ UNCHANGED risk_assessment
           ELSE risk_assessment' = outcome.value /\ UNCHANGED raised
    /\ UNCHANGED <<test_cases, test_results, hallucination_checks, pc, results,
                   validation_result, accuracy_metrics,
                   performance_metrics, recommendation>>

\* TestSummaryGenerator()._calculate_accuracy_metrics(test_results)
CallCalculateAccuracyMetrics ==
    /\ pc = "call"
    /\ accuracy_metrics = <<>>
    /\ accuracy_metrics' = <<CalculateAccuracyMetrics(test_results)>>
    /\ UNCHANGED <<test_cases, test_results, hallucination_checks, risk_assessment,
                   pc, results, validation_result, raised, performance_metrics,
                   recommendation>>

\* TestSummaryGenerator()._calculate_performance_metrics(test_results)
CallCalculatePerformanceMetrics ==
    /\ pc = "call"
    /\ performance_metrics = <<>>
    /\ performance_metrics' = <<CalculatePerformanceMetrics(test_results)>>
    /\ UNCHANGED <<test_cases, test_results, hallucination_checks, risk_assessment,
                   pc, results, validation_result, raised, accuracy_metrics,
                   recommendation>>

NextRisk ==
    \/ CallCalculateRisk
    \/ CallCalculateAccuracyMetrics
    \/ CallCalculatePerformanceMetrics

SpecRisk == InitRisk /\ [][NextRisk]_vars

\* ------------------------------------------- calculate_risk on two result lists

\* a second FraudRiskAnalyzer().calculate_risk(other), on a list of at most one
\* failed result of each category of test; the earlier assessment is kept
\* behind the new one
CallCalculateRiskAgain ==
    /\ pc = "call"
    /\ Len(risk_assessment) = 1
    /\ raised = None
    /\ test_results' \in
           {other \in {Runs(counts, 1) : counts \in [1..Len(ResultKinds) -> 0..1]} :
               \A i \in DOMAIN other : other[i].status = FAILED}
    /\ LET outcome == CalculateRisk(test_results')
       IN  IF outcome.exception # <<>>
           THEN raised' = outcome.exception[1] /\ UNCHANGED risk_assessment
           ELSE risk_assessment' = outcome.value \o risk_assessment /\ UNCHANGED raised
    /\ UNCHANGED <<test_cases, hallucination_checks, pc, results, validation_result,
                   accuracy_metrics,
                   performance_metrics, recommendation>>

SpecCompare == InitRisk /\ [][CallCalculateRisk \/ CallCalculateRiskAgain]_vars

\* ------------------------------------- verify_results on a given result list

\* the lists verify_results is applied to: up to MaxResults results, each a
\* result the engine returns for a detected fraud (no finding), a missed fraud
\* (score 95 without alert) or an edge case (cites high_value), a result whose
\* risk_score a caller set out of range (with and without the alert), or a
\* missed fraud under an id that
\* holds "Compliance" or "Performance"
InitVerify ==
    /\ test_cases = <<>>
    /\ test_results \in UNION {[1..n ->
            {fraudDetected, fraudMissed, ExecuteSingleTest(tcEdge, DefaultDraw),
             [fraudDetected EXCEPT !.actual_result.risk_score = <<150>>],
             [fraudMissed EXCEPT !.actual_result.risk_score = <<150>>],
             [fraudMissed EXCEPT !.test_case_id = <<"T","C","-","C","o","m","p","l","i","a","n","c","e","-","F","R","A","U","D","-","0","0","9">>],
             [fraudMissed EXCEPT !.test_case_id = <<"T","C","-","P","e","r","f","o","r","m","a","n","c","e","-","F","R","A","U","D","-","0","1","0">>]}] :
                n \in 0..MaxResults}
    /\ hallucination_checks = <<>>
    /\ risk_assessment = <<>>
    /\ pc = "call"
    /\ results = <<>>
    /\ validation_result = <<>>
    /\ raised = None
    /\ accuracy_metrics = <<>>
    /\ performance_metrics = <<>>
    /\ recommendation = None

\* HallucinationChecker().verify_results(test_results)
CallVerifyResults ==
    /\ pc = "call"
    /\ \E hs \in [DOMAIN test_results -> HallucinationDraws] :
           hallucination_checks' = VerifyResults(test_results, hs)
    /\ pc' = "verified"
    /\ UNCHANGED <<test_cases, test_results, risk_assessment, results,
                   validation_result, raised, accuracy_metrics,
                   performance_metrics, recommendation>>

SpecVerify == InitVerify /\ [][CallVerifyResults]_vars

\* ------------------- get_deployment_recommendation on given agent fields

criticalFailed ==
    TestResult(<<"T","C","-","C","A","R","D","_","F","R","A","U","D","-","0","0","1">>, FAILED, EmptyResult, 100,
               <<<<"C","R","I","T","I","C","A","L",":"," ","d","e","t","e","c","t","i","o","n"," ","s","e","r","v","i","c","e"," ","r","e","t","u","r","n","e","d"," ","n","o"," ","v","e","r","d","i","c","t">>>>, <<>>)

criticalBlocked == [criticalFailed EXCEPT !.status = BLOCKED]

DecisionKinds == {fraudDetected, complianceFailed, criticalFailed, criticalBlocked}

DecisionResults == UNION {[1..n -> DecisionKinds] : n \in 0..MaxCases}

OverallScores == {0, 1800, 4999, 5000, 7499, 7500, 8000, 12300}
ComplianceScores == {0, 4000, 6000}

DecisionAssessments ==
    {RiskAssessment(overall, CategorizeRisk(Rat(overall, 100)), 0, 0, compliance, 0,
                    <<RecApproved>>) :
        overall \in OverallScores, compliance \in ComplianceScores}

InitDecision ==
    /\ test_cases = <<>>
    /\ test_results \in DecisionResults
    /\ hallucination_checks = <<>>
    /\ risk_assessment \in {<<>>} \cup {<<a>> : a \in DecisionAssessments}
    /\ pc = "call"
    /\ results = <<>>
    /\ validation_result = <<>>
    /\ raised = None
    /\ accuracy_metrics = <<>>
    /\ performance_metrics = <<>>
    /\ recommendation = None

NextDecision == CallGetDeploymentRecommendation

SpecDecision == InitDecision /\ [][NextDecision]_vars

\* ------------------------------- run_full_qa_cycle called again on one agent

\* the agent after a first run_full_qa_cycle has returned its report: every
\* field holds what the six steps of that cycle assigned
InitCycles ==
    /\ test_cases \in {<<tcFraud>>, <<tcFraud, tcNeg>>}
    /\ \E rnd \in {DefaultDraw, [DefaultDraw EXCEPT !.correct = FALSE]} :
           /\ test_results = [i \in DOMAIN test_cases |-> ExecuteSingleTest(test_cases[i], rnd)]
           /\ validation_result = ValidationOf(test_cases[Len(test_cases)], rnd)
    /\ results = test_results
    /\ hallucination_checks
           = VerifyResults(test_results, [i \in DOMAIN test_results |-> NoHallucinationDraw])
    /\ risk_assessment = CalculateRisk(test_results).value
    /\ accuracy_metrics = <<CalculateAccuracyMetrics(test_results)>>
    /\ performance_metrics = <<CalculatePerformanceMetrics(test_results)>>
    /\ pc = "idle"
    /\ raised = None
    /\ recommendation = None

SpecCycles == InitCycles /\ [][Next]_vars

\* ------------------------------------------------------------- properties

StartsWith(prefix, s) ==
    Len(s) >= Len(prefix) /\ SubSeq(s, 1, Len(prefix)) = prefix

\* the scores of a RiskAssessment, in hundredths
Scores(a) ==
    {a.detection_risk, a.false_positive_risk, a.compliance_risk, a.system_risk,
     a.overall_risk_score}

\* C1: every component score and the overall score of a RiskAssessment returned
\* by calculate_risk lies in [0, 100]
C1_ScoresWithinRange ==
    risk_assessment # <<>> =>
        \A score \in Scores(risk_assessment[1]) : 0 <= score /\ score <= 10000

\* one performance test, failed: system_risk 820.0 and overall_risk_score 123.0
C1_SystemRiskAbove100 ==
    /\ test_results = <<performanceFailed>>
    /\ risk_assessment # <<>>
    /\ risk_assessment[1].system_risk = 82000
    /\ risk_assessment[1].overall_risk_score = 12300

\* C2: calculate_risk on an empty list does not raise and returns the neutral
\* assessment: every score 0 and risk_level LOW
C2_EmptyListNeutral ==
    test_results = <<>> =>
        /\ raised = None
        /\ risk_assessment # <<>> =>
              /\ Scores(risk_assessment[1]) = {0}
              /\ risk_assessment[1].risk_level = LOW

\* calculate_risk([]) raised the ZeroDivisionError of _generate_recommendations
C2_EmptyListRaises ==
    test_results = <<>> /\ raised = "ZeroDivisionError" /\ risk_assessment = <<>>

\* C3: with compliance_risk >= 60 in the agent's risk assessment,
\* get_deployment_recommendation returns a DO NOT DEPLOY decision
C3_ComplianceRiskBlocksDeployment ==
    (/\ recommendation # None
     /\ risk_assessment # <<>>
     /\ risk_assessment[1].compliance_risk >= 6000) =>
        recommendation \in {DecisionCritical, DecisionHighRisk}

\* a cycle whose compliance_risk is 60 ends with the deployment approved
C3_ApprovedAtComplianceRisk60 ==
    /\ pc = "done"
    /\ risk_assessment # <<>>
    /\ risk_assessment[1].compliance_risk = 6000
    /\ recommendation = DecisionApproved

\* C4: get_deployment_recommendation decides in strict precedence: a FAILED
\* result with an error containing "CRITICAL" gives DO NOT DEPLOY (critical
\* failures) whatever the score; otherwise a score >= 75 gives DO NOT DEPLOY (high
\* risk score); otherwise a score >= 50 gives DEPLOY WITH CAUTION; otherwise
\* APPROVED. compliance_risk plays no part in it.
C4_StrictPrecedence ==
    (recommendation # None /\ risk_assessment # <<>>) =>
        LET score == risk_assessment[1].overall_risk_score
            critical ==
                \E i \in DOMAIN test_results :
                    /\ test_results[i].status = FAILED
                    /\ \E j \in DOMAIN test_results[i].errors :
                           Contains(<<"C","R","I","T","I","C","A","L">>, test_results[i].errors[j])
        IN  recommendation =
                IF critical THEN "DO NOT DEPLOY - Critical failures detected"
                ELSE IF score >= 7500 THEN "DO NOT DEPLOY - High risk score"
                ELSE IF score >= 5000
                THEN "DEPLOY WITH CAUTION - Medium risk, requires approval"
                ELSE "APPROVED FOR DEPLOYMENT - Low risk"

\* score 80, compliance_risk 40 and no FAILED result tagged CRITICAL (a BLOCKED
\* one is): "DO NOT DEPLOY - High risk score"
C4_Score80Compliance40 ==
    /\ risk_assessment # <<>>
    /\ risk_assessment[1].overall_risk_score = 8000
    /\ risk_assessment[1].compliance_risk = 4000
    /\ test_results = <<criticalBlocked>>
    /\ recommendation = "DO NOT DEPLOY - High risk score"

\* C5: risk_level is the threshold classification of the stored, rounded
\* overall_risk_score: CRITICAL from 75, HIGH from 50, MEDIUM from 25, else LOW
C5_LevelOfStoredScore ==
    risk_assessment # <<>> =>
        LET score == risk_assessment[1].overall_risk_score
        IN  risk_assessment[1].risk_level =
                IF score >= 7500 THEN CRITICAL
                ELSE IF score >= 5000 THEN HIGH
                ELSE IF score >= 2500 THEN MEDIUM
                ELSE LOW

\* an assessment that stores overall_risk_score 25.0 with risk_level LOW
C5_Stored25ButLow ==
    /\ risk_assessment # <<>>
    /\ risk_assessment[1].overall_risk_score = 2500
    /\ risk_assessment[1].risk_level = LOW

\* C6: the confusion matrix of _calculate_accuracy_metrics adds up:
\* true_positives + false_negatives = total_fraud_tests and
\* true_negatives + false_positives = total_legitimate_tests
C6_ConfusionMatrixTotals ==
    accuracy_metrics # <<>> =>
        LET m == accuracy_metrics[1]
        IN  /\ m.true_positives + m.false_negatives = m.total_fraud_tests
            /\ m.true_negatives + m.false_positives = m.total_legitimate_tests

\* one BLOCKED fraud test: counted in total_fraud_tests, in no cell of the matrix
C6_BlockedFraudTestUncounted ==
    /\ test_results = <<fraudBlocked>>
    /\ accuracy_metrics # <<>>
    /\ accuracy_metrics[1].total_fraud_tests = 1
    /\ accuracy_metrics[1].true_positives = 0
    /\ accuracy_metrics[1].false_negatives = 0

\* C7: a test case whose oracle call or validation raises yields a BLOCKED
\* result with empty actual_result and one non-empty error; the loop goes on, so
\* that once execute_test_suite has returned every test case has its result, and
\* nothing is raised before that
C7_ExceptionYieldsBlocked ==
    /\ (results # <<>> /\ validation_result = <<>>) =>
          LET r == results[Len(results)]
          IN  /\ r.test_case_id = test_cases[Len(results)].test_case_id
              /\ r.status = BLOCKED
              /\ r.actual_result = EmptyResult
              /\ Len(r.errors) = 1
              /\ r.errors[1] # <<>>
    /\ pc # "execute" => Len(test_results) = Len(test_cases)
    /\ pc = "execute" => raised = None

\* the first test case raised, the second one ran and passed
C7_BlockedThenPassed ==
    /\ pc = "hallucinations"
    /\ Len(test_results) = 2
    /\ test_results[1].status = BLOCKED
    /\ test_results[2].status = PASSED

\* C8: at every stage of a cycle after execution (hallucination check, risk
\* analysis, summary, report) test_cases and test_results have the same length
\* and test_results[i].test_case_id = test_cases[i].test_case_id for every i
C8_ResultsAlignedWithCases ==
    pc \in {"hallucinations", "risk", "summary", "report"} =>
        /\ Len(test_results) = Len(test_cases)
        /\ \A i \in DOMAIN test_results :
               test_results[i].test_case_id = test_cases[i].test_case_id

\* the report stage of a cycle of two test cases, one of them blocked
C8_ReportOverTwoCases ==
    /\ pc = "report"
    /\ Len(test_cases) = 2
    /\ \E i \in DOMAIN test_results : test_results[i].status = BLOCKED

\* C9: _validate_result returns FAILED if and only if its errors are non-empty
\* and PASSED otherwise, whatever the warnings; it returns neither BLOCKED nor
\* SKIPPED, so a BLOCKED result comes from the except branch
C9_StatusFromErrors ==
    /\ validation_result # <<>> =>
          validation_result[1].status =
              IF validation_result[1].errors # <<>> THEN FAILED ELSE PASSED
    /\ \A i \in DOMAIN results :
          /\ results[i].status \in {PASSED, FAILED, BLOCKED}
          /\ results[i].status = BLOCKED =>
                /\ results[i].errors # <<>>
                /\ StartsWith(<<"T","e","s","t"," ","e","x","e","c","u","t","i","o","n"," ","f","a","i","l","e","d",":"," ">>, results[i].errors[1])
                /\ i = Len(results) => validation_result = <<>>

\* a validation with warnings and no error: PASSED
C9_WarningsOnlyPassed ==
    /\ validation_result # <<>>
    /\ validation_result[1].warnings # <<>>
    /\ validation_result[1].errors = <<>>
    /\ validation_result[1].status = PASSED

\* C10: _validate_result reports an error starting with "FALSE NEGATIVE" exactly
\* when the expected alert is specified true and the actual alert is false or
\* absent, one starting with "FALSE POSITIVE" exactly when the expected alert is
\* specified false and the actual alert is true, and neither otherwise
C10_AlertMismatchErrors ==
    validation_result # <<>> =>
        LET expected == test_cases[Len(results)].expected_result
            actual_result == results[Len(results)].actual_result
            errors == validation_result[1].errors
            specified == expected.fraud_alert_triggered # <<>>
            expected_alert == specified /\ expected.fraud_alert_triggered[1]
            actual_alert == /\ actual_result.fraud_alert_triggered # <<>>
                            /\ actual_result.fraud_alert_triggered[1]
            reported(label) == \E i \in DOMAIN errors : StartsWith(label, errors[i])
        IN  /\ reported(<<"F","A","L","S","E"," ","N","E","G","A","T","I","V","E">>) <=>
                  (specified /\ expected_alert /\ ~actual_alert)
            /\ reported(<<"F","A","L","S","E"," ","P","O","S","I","T","I","V","E">>) <=>
                  (specified /\ ~expected_alert /\ actual_alert)

\* an expected alert against a result that carries no alert key: FALSE NEGATIVE
C10_FalseNegativeOnAbsentAlert ==
    /\ validation_result # <<>>
    /\ test_cases[Len(results)].expected_result.fraud_alert_triggered = <<TRUE>>
    /\ results[Len(results)].actual_result.fraud_alert_triggered = <<>>
    /\ \E i \in DOMAIN validation_result[1].errors :
           StartsWith(<<"F","A","L","S","E"," ","N","E","G","A","T","I","V","E">>, validation_result[1].errors[i])

\* C11: each piecewise curve is continuous at its breakpoints: adjacent branches
\* agree at false-negative rates 5% and 10%, at false-positive rates 10% and 20%
\* and at system failure rates 2% and 5%; a false-negative rate of exactly 5%
\* gives detection_risk exactly 20
C11_CurvesContinuous ==
    /\ DetectionSegment(1, Rat(5, 100)) = DetectionSegment(2, Rat(5, 100))
    /\ DetectionSegment(2, Rat(10, 100)) = DetectionSegment(3, Rat(10, 100))
    /\ FalsePositiveSegment(1, Rat(10, 100)) = FalsePositiveSegment(2, Rat(10, 100))
    /\ FalsePositiveSegment(2, Rat(20, 100)) = FalsePositiveSegment(3, Rat(20, 100))
    /\ SystemSegment(1, Rat(2, 100)) = SystemSegment(2, Rat(2, 100))
    /\ SystemSegment(2, Rat(5, 100)) = SystemSegment(3, Rat(5, 100))
    /\ (/\ risk_assessment # <<>>
        /\ test_results = <<fraudMissed>> \o Replicate(fraudDetected, 19)) =>
           risk_assessment[1].detection_risk = 2000

\* one failed performance test in 20: system_risk is 60.0 at the failure rate 5%,
\* where the branch below it ends at 59.99
C11_SystemGapAt5Percent ==
    /\ test_results = <<performanceFailed>> \o Replicate(performancePassed, 19)
    /\ risk_assessment # <<>>
    /\ risk_assessment[1].system_risk = 6000
    /\ Round2(SystemSegment(2, Rat(5, 100))) = 5999

\* C12: detection_risk is the piecewise function of r = (FAILED fraud-positive
\* results whose errors contain "FALSE NEGATIVE") / (fraud-positive results):
\* r*400 for r < 5%, 20 + (r - 0.05)*1200 for 5% <= r < 10%,
\* min(100, 80 + (r - 0.10)*200) for r >= 10%, and 0 with no fraud-positive
\* result; 10 fraud-positive tests with exactly 1 FALSE NEGATIVE failure give 80
C12_DetectionPiecewise ==
    risk_assessment # <<>> =>
        LET fraud == SelectSeq(test_results, IsFraudTest)
            missed(x) == x.status = FAILED /\ IsFalseNegative(x)
            r == Rat(Len(SelectSeq(fraud, missed)), Len(fraud))
            expected ==
                IF fraud = <<>> THEN RatInt(0)
                ELSE IF RatLt(r, Rat(5, 100)) THEN RatMul(r, RatInt(400))
                ELSE IF RatLt(r, Rat(10, 100))
                THEN RatAdd(RatInt(20), RatMul(RatSub(r, Rat(5, 100)), RatInt(1200)))
                ELSE RatMin(RatInt(100),
                            RatAdd(RatInt(80), RatMul(RatSub(r, Rat(10, 100)), RatInt(200))))
        IN  /\ risk_assessment[1].detection_risk = Round2(expected)
            /\ test_results = <<fraudMissed>> \o Replicate(fraudDetected, 9) =>
                   risk_assessment[1].detection_risk = 8000

\* calculate_risk has returned for 10 fraud-positive results of which exactly
\* one failed with a FALSE NEGATIVE error
C12_TenTestsOneMissed ==
    /\ test_results = <<fraudMissed>> \o Replicate(fraudDetected, 9)
    /\ risk_assessment # <<>>
    /\ risk_assessment[1].detection_risk = 8000

\* calculate_risk has returned for a list whose only fraud-positive result is a
\* FALSE NEGATIVE failure: the third branch gives 260, returned as 100
C12_AllMissedClamped ==
    /\ test_results = <<fraudMissed>>
    /\ risk_assessment # <<>>
    /\ risk_assessment[1].detection_risk = 10000

\* C13: compliance_risk is a step function of the number of FAILED compliance
\* results only: 0 failures give 0, exactly 1 gives 60, exactly 2 gives 85, 3 or
\* more give 100; PASSED, BLOCKED and SKIPPED compliance results do not change it
C13_ComplianceStepOfFailed ==
    risk_assessment # <<>> =>
        LET failed(r) == IsComplianceTest(r) /\ r.status = FAILED
            others(r) == ~(IsComplianceTest(r) /\ r.status \in {PASSED, BLOCKED, SKIPPED})
            n == Len(SelectSeq(test_results, failed))
        IN  /\ risk_assessment[1].compliance_risk =
                   (IF n = 0 THEN 0 ELSE IF n = 1 THEN 6000 ELSE IF n = 2 THEN 8500 ELSE 10000)
            /\ risk_assessment[1].compliance_risk =
                   Round2(CalculateComplianceRisk(SelectSeq(test_results, others)))

\* calculate_risk has returned for two FAILED compliance results followed by
\* BLOCKED ones
C13_TwoFailedRestBlocked ==
    /\ test_results = Replicate(complianceFailed, 2) \o Replicate(complianceBlocked, 3)
    /\ risk_assessment # <<>>
    /\ risk_assessment[1].compliance_risk = 8500

\* C14: for every non-empty result list, including lists that contain no
\* Performance test, system_risk is the system curve applied to the rate
\* (FAILED Performance results + BLOCKED results) / (total number of results)
C14_SystemRiskOfEveryList ==
    risk_assessment # <<>> =>
        LET failedPerformance(r) == IsPerformanceTest(r) /\ r.status = FAILED
            blocked(r) == r.status = BLOCKED
        IN  risk_assessment[1].system_risk =
                Round2(SystemCurve(Len(SelectSeq(test_results, failedPerformance))
                                       + Len(SelectSeq(test_results, blocked)),
                                   Len(test_results)))

\* calculate_risk has returned for a single BLOCKED fraud result and no
\* Performance test: system_risk is 0 where the curve at rate 1/1 gives 820
C14_BlockedWithoutPerformanceTest ==
    /\ test_results = <<fraudBlocked>>
    /\ risk_assessment # <<>>
    /\ risk_assessment[1].system_risk = 0
    /\ Round2(SystemCurve(1, 1)) = 82000

\* C15: overall_risk_score is monotone in each component: for two result sets
\* whose component scores are equal except that one component is higher in the
\* second, the second's overall_risk_score is not lower and its risk_level is
\* not a lower category than the first's
C15_OverallMonotone ==
    Len(risk_assessment) = 2 =>
        LET first == risk_assessment[2]
            second == risk_assessment[1]
            components == {"detection_risk", "false_positive_risk",
                           "compliance_risk", "system_risk"}
            rank == (LOW :> 1) @@ (MEDIUM :> 2) @@ (HIGH :> 3) @@ (CRITICAL :> 4)
        IN  (\E c \in components :
                /\ second[c] > first[c]
                /\ \A o \in components \ {c} : second[o] = first[o]) =>
            /\ second.overall_risk_score >= first.overall_risk_score
            /\ rank[second.risk_level] >= rank[first.risk_level]

\* two assessments that differ in the false-positive component only: no
\* false positive among 10 legitimate results, then a single flagged one; the
\* score rises from 0 to 20
C15_FalsePositiveRaised ==
    /\ Len(risk_assessment) = 2
    /\ test_results = <<legitFlagged>>
    /\ risk_assessment[2].false_positive_risk = 0
    /\ risk_assessment[1].false_positive_risk = 10000
    /\ risk_assessment[2].detection_risk = risk_assessment[1].detection_risk
    /\ risk_assessment[2].compliance_risk = risk_assessment[1].compliance_risk
    /\ risk_assessment[2].system_risk = risk_assessment[1].system_risk
    /\ risk_assessment[2].overall_risk_score = 0
    /\ risk_assessment[1].overall_risk_score = 2000

\* C16: the four weights sum to exactly 1, and in the report generate_risk_report
\* produces for an assessment returned by calculate_risk the four contribution
\* values (stored component score times weight) sum to exactly the assessment's
\* overall_risk_score
C16_ContributionsSumToOverall ==
    /\ WeightDetection + WeightFalsePositive + WeightCompliance + WeightSystem = 100
    /\ risk_assessment # <<>> =>
           LET breakdown == GenerateRiskReport(risk_assessment[1]).risk_breakdown
           IN  RatAdd(RatAdd(breakdown.detection_risk.contribution,
                             breakdown.false_positive_risk.contribution),
                      RatAdd(breakdown.compliance_risk.contribution,
                             breakdown.system_risk.contribution))
               = Rat(risk_assessment[1].overall_risk_score, 100)

\* a missed fraud, a detected fraud and a failed performance test: system_risk
\* 286.666... is stored as 286.67, its contribution is 43.0005, and the overall
\* score 78.0 was rounded from 35 + 43
C16_RoundedSystemContribution ==
    /\ test_results = <<fraudMissed, fraudDetected, performanceFailed>>
    /\ risk_assessment # <<>>
    /\ risk_assessment[1].overall_risk_score = 7800
    /\ risk_assessment[1].system_risk = 28667
    /\ GenerateRiskReport(risk_assessment[1]).risk_breakdown.system_risk.contribution
           = Rat(430005, 10000)
    /\ GenerateRiskReport(risk_assessment[1]).risk_breakdown.detection_risk.contribution
           = RatInt(35)

\* C17: for every non-empty result set the recommendations of the assessment
\* are non-empty, and they contain the approved message exactly when no
\* component-threshold rule and no pass-rate rule (failed/total > 15%) fired,
\* in which case it is the only element; when every test PASSED, risk_level is
\* LOW and recommendations is the single approved message
C17_ApprovedIffNoRuleFired ==
    risk_assessment # <<>> =>
        LET recommendations == risk_assessment[1].recommendations
            failed(r) == r.status = FAILED
            fired ==
                \/ RatGe(CalculateDetectionRisk(test_results), RatInt(25))
                \/ RatGe(CalculateFalsePositiveRisk(test_results), RatInt(50))
                \/ RatGe(CalculateComplianceRisk(test_results), RatInt(30))
                \/ RatGe(CalculateSystemRisk(test_results), RatInt(30))
                \/ 100 * Len(SelectSeq(test_results, failed)) > 15 * Len(test_results)
        IN  /\ test_results # <<>>
            /\ recommendations # <<>>
            /\ (\E i \in DOMAIN recommendations : recommendations[i] = RecApproved) <=> ~fired
            /\ ~fired => recommendations = <<RecApproved>>
            /\ (\A i \in DOMAIN test_results : test_results[i].status = PASSED) =>
                   /\ risk_assessment[1].risk_level = LOW
                   /\ recommendations = <<RecApproved>>

\* calculate_risk has returned for ten results that all PASSED
C17_AllPassedApproved ==
    /\ test_results = Replicate(fraudDetected, 10)
    /\ risk_assessment # <<>>
    /\ risk_assessment[1].risk_level = LOW
    /\ risk_assessment[1].recommendations = <<RecApproved>>

\* C18: a test result for which none of the detection rules (indicator
\* grounding, score-range validity, score/alert consistency, indicator-pair
\* contradiction, confidence calibration) yields a finding produces no
\* HallucinationCheck.  The findings of these rules name the field
\* fraud_indicators, risk_score or confidence, so every returned check holds a
\* finding on one of these fields.
C18_NoCheckWithoutRuleFinding ==
    \A i \in DOMAIN hallucination_checks :
        \E j \in DOMAIN hallucination_checks[i].hallucinations_detected :
            hallucination_checks[i].hallucinations_detected[j].field
                \in {"fraud_indicators", "risk_score", "confidence"}

\* verify_results has returned a check for a detected fraud whose only finding
\* is the injected one on the field explanation
C18_InjectedFindingOnly ==
    /\ pc = "verified"
    /\ test_results = <<fraudDetected>>
    /\ DetectHallucinations(fraudDetected, NoHallucinationDraw) = <<>>
    /\ Len(hallucination_checks) = 1
    /\ hallucination_checks[1].hallucinations_detected
           = <<Finding("invalid_logic", LOW, "explanation")>>

\* C19: verify_results never returns a HallucinationCheck whose test_case_id
\* contains "Performance" or "Compliance", and it returns at most one check per
\* input result, in the same relative order as the input results: the checks
\* map to the results by a strictly increasing map that keeps the id and the
\* findings of the result
C19_SkippedIdsAndOrderKept ==
    /\ \A i \in DOMAIN hallucination_checks :
           /\ ~Contains(<<"P","e","r","f","o","r","m","a","n","c","e">>, hallucination_checks[i].test_case_id)
           /\ ~Contains(<<"C","o","m","p","l","i","a","n","c","e">>, hallucination_checks[i].test_case_id)
    /\ pc = "verified" =>
           \E f \in [DOMAIN hallucination_checks -> DOMAIN test_results] :
               /\ \A i, j \in DOMAIN hallucination_checks : i < j => f[i] < f[j]
               /\ \A i \in DOMAIN hallucination_checks :
                      /\ hallucination_checks[i].test_case_id = test_results[f[i]].test_case_id
                      /\ \E h \in HallucinationDraws :
                             hallucination_checks[i].hallucinations_detected
                                 = DetectHallucinations(test_results[f[i]], h)

\* verify_results has returned for an edge case, a missed fraud under a
\* Compliance id and a missed fraud: two checks, for the first and the third
C19_ComplianceIdSkippedBetween ==
    /\ pc = "verified"
    /\ Len(test_results) = 3
    /\ test_results[1].test_case_id = <<"T","C","-","F","R","A","U","D","-","E","D","G","E","-","0","0","6">>
    /\ test_results[2].test_case_id = <<"T","C","-","C","o","m","p","l","i","a","n","c","e","-","F","R","A","U","D","-","0","0","9">>
    /\ test_results[3] = fraudMissed
    /\ Len(hallucination_checks) = 2
    /\ hallucination_checks[1].test_case_id = <<"T","C","-","F","R","A","U","D","-","E","D","G","E","-","0","0","6">>
    /\ hallucination_checks[2].test_case_id = fraudMissed.test_case_id

\* C20: every HallucinationCheck returned by verify_results has at least one
\* finding, and its severity is the highest severity among its findings under
\* the order CRITICAL > HIGH > MEDIUM > LOW; the severity NONE never appears
C20_SeverityIsHighestFinding ==
    \A i \in DOMAIN hallucination_checks :
        LET check == hallucination_checks[i]
            findings == check.hallucinations_detected
            rank == (LOW :> 1) @@ (MEDIUM :> 2) @@ (HIGH :> 3) @@ (CRITICAL :> 4)
        IN  /\ findings # <<>>
            /\ check.severity \in {LOW, MEDIUM, HIGH, CRITICAL}
            /\ \E j \in DOMAIN findings : findings[j].severity = check.severity
            /\ \A j \in DOMAIN findings : rank[findings[j].severity] <= rank[check.severity]

\* verify_results has returned a check with a MEDIUM finding after a HIGH one
\* and severity HIGH, and a check with severity CRITICAL
C20_HighOverMediumAndCritical ==
    /\ pc = "verified"
    /\ Len(hallucination_checks) = 2
    /\ hallucination_checks[1].hallucinations_detected
           = <<Finding("invalid_logic", HIGH, "risk_score"),
               Finding("contradictory_statements", MEDIUM, "explanation")>>
    /\ hallucination_checks[1].severity = HIGH
    /\ hallucination_checks[2].severity = CRITICAL

\* C23: for any list of n >= 1 test results with execution_time_ms >= 0, the
\* reported p95 and p99 response times equal the elements at index
\* floor(n*0.95) and floor(n*0.99) (clamped to n-1) of the ascending sort of all
\* n execution_time_ms values
C23_PercentilesOfAllResults ==
    (performance_metrics # <<>> /\ test_results # <<>>) =>
        LET sorted == SortSeq([i \in DOMAIN test_results |->
                                  test_results[i].execution_time_ms],
                              LAMBDA a, b : a < b)
            n == Len(sorted)
            at(percent) == sorted[Min((n * percent) \div 100, n - 1) + 1]
        IN  /\ performance_metrics[1].p95_response_time_ms = 100 * at(95)
            /\ performance_metrics[1].p99_response_time_ms = 100 * at(99)

\* 21 results: one took 200 ms, 19 took 100 ms, one has execution_time_ms 0.
\* Index 19 of the 21 sorted values holds 100, but the result with time 0 is
\* dropped and index 19 of the remaining 20 values holds 200
C23_ZeroTimeShiftsP95 ==
    /\ test_results =
           <<[fraudDetected EXCEPT !.execution_time_ms = 200]>>
           \o Replicate(fraudDetected, 19)
           \o <<[legitCleared EXCEPT !.execution_time_ms = 0]>>
    /\ performance_metrics # <<>>
    /\ performance_metrics[1].p95_response_time_ms = 20000
    /\ fraudDetected.execution_time_ms = 100

\* C21: aggregate outputs do not depend on the order of the results: for any
\* permutation of the same list of test results, _calculate_accuracy_metrics,
\* _calculate_performance_metrics (including p95/p99) and calculate_risk return
\* the same values.  Every permutation of a list of up to 4 results is taken,
\* and the reversal and the rotation by one of a longer list.
C21_OrderIndependent ==
    LET n == Len(test_results)
        reorderings ==
            IF n <= 4
            THEN {[i \in 1..n |-> test_results[p[i]]] : p \in Permutations(1..n)}
            ELSE {[i \in 1..n |-> test_results[n + 1 - i]],
                  Tail(test_results) \o <<Head(test_results)>>}
    IN  \A reordered \in reorderings :
            /\ accuracy_metrics # <<>> =>
                   accuracy_metrics[1] = CalculateAccuracyMetrics(reordered)
            /\ performance_metrics # <<>> =>
                   performance_metrics[1] = CalculatePerformanceMetrics(reordered)
            /\ risk_assessment # <<>> =>
                   risk_assessment = CalculateRisk(reordered).value

\* the three aggregates have been computed for a result that took 200 ms
\* followed by two that took 100 ms; p95 is the time of the first result
C21_SlowestFirst ==
    /\ test_results = <<[fraudDetected EXCEPT !.execution_time_ms = 200],
                        fraudDetected, fraudDetected>>
    /\ accuracy_metrics # <<>>
    /\ risk_assessment # <<>>
    /\ performance_metrics # <<>>
    /\ performance_metrics[1].p95_response_time_ms = 20000

\* C22: the two decision functions can disagree on one RiskAssessment: for a
\* result set the execution engine returns whose only failure is a single
\* compliance test, FraudQAAgent.get_deployment_recommendation returns APPROVED
\* FOR DEPLOYMENT while FraudRiskAnalyzer._get_deployment_recommendation, in the
\* risk report of the same assessment, returns DO NOT DEPLOY
C22_SingleComplianceFailureDisagrees ==
    LET failed(r) == r.status = FAILED
        passed(r) == r.status = PASSED
        failures == SelectSeq(test_results, failed)
    IN  (/\ recommendation # None
         /\ risk_assessment # <<>>
         /\ Len(failures) = 1
         /\ IsComplianceTest(failures[1])
         /\ Len(SelectSeq(test_results, passed)) = Len(test_results) - 1) =>
            /\ recommendation = DecisionApproved
            /\ GenerateRiskReport(risk_assessment[1]).overall_assessment.deployment_recommendation
                   = "DO NOT DEPLOY - Compliance violations (BLOCKING)"

\* the cycle has ended on a failed compliance test and a detected fraud, and
\* get_deployment_recommendation has returned the approval
C22_ApprovedAgainstDoNotDeploy ==
    /\ pc = "done"
    /\ test_results = <<complianceFailed, fraudDetected>>
    /\ risk_assessment # <<>>
    /\ risk_assessment[1].compliance_risk = 6000
    /\ recommendation = DecisionApproved
    /\ AnalyzerGetDeploymentRecommendation(risk_assessment[1])
           = "DO NOT DEPLOY - Compliance violations (BLOCKING)"

\* C24: run_full_qa_cycle is strictly sequential: the oracle is invoked for
\* test cases one at a time in list order, each result being validated and
\* appended before the next test case is invoked, and hallucination checking,
\* risk analysis, summary and report each start only after the previous stage
\* has returned and a result exists for every test case
C24_StrictlySequential ==
    [][/\ results' # results =>
              /\ pc = "execute" /\ pc' = "execute"
              /\ Len(results') = Len(results) + 1
              /\ SubSeq(results', 1, Len(results)) = results
              /\ results'[Len(results')].test_case_id
                     = test_cases[Len(results')].test_case_id
              /\ (validation_result' = <<>>) = (results'[Len(results')].status = BLOCKED)
              /\ validation_result' # <<>> =>
                     results'[Len(results')].status = validation_result'[1].status
       /\ test_results' # test_results =>
              /\ pc = "execute" /\ pc' = "hallucinations"
              /\ test_results' = results
              /\ Len(results) = Len(test_cases)
       /\ pc' # pc =>
              /\ <<pc, pc'>> \in {<<"idle", "execute">>, <<"execute", "hallucinations">>,
                                  <<"hallucinations", "risk">>, <<"risk", "summary">>,
                                  <<"risk", "idle">>, <<"summary", "report">>,
                                  <<"report", "done">>}
              /\ pc' \in {"risk", "summary", "report", "done"} =>
                     /\ test_results = results
                     /\ Len(test_results) = Len(test_cases)
       /\ hallucination_checks' # hallucination_checks => pc = "hallucinations"
       /\ risk_assessment' # risk_assessment => pc = "risk" /\ pc' = "summary"
       /\ accuracy_metrics' # accuracy_metrics =>
              /\ pc = "summary" /\ pc' = "report"
              /\ risk_assessment # <<>>
       /\ (pc' = "done" /\ pc # "done") => accuracy_metrics # <<>>
      ]_vars

\* the cycle has ended over two test cases whose second result is BLOCKED:
\* every stage has run and there is a result for each test case
C24_AllStagesOverTwoCases ==
    /\ pc = "done"
    /\ Len(test_cases) = 2
    /\ test_results = results
    /\ \A i \in 1..2 : test_results[i].test_case_id = test_cases[i].test_case_id
    /\ test_results[2].status = BLOCKED
    /\ hallucination_checks # <<>>
    /\ risk_assessment # <<>>
    /\ accuracy_metrics # <<>>
    /\ performance_metrics # <<>>

\* C25: the score/alert consistency rule contributes independently of the
\* other rules: for every checked result whose actual_result has a risk_score,
\* the findings contain an invalid_logic/HIGH finding on field risk_score if
\* and only if (risk_score > 90 and no alert triggered) or (risk_score < 30 and
\* alert triggered), whether or not the score-range rule also fired.  The
\* findings of a result are those of the check returned under its id (none
\* when no check is returned); results sharing their id are left out.
C25_ConsistencyFindingIndependent ==
    pc = "verified" =>
        \A i \in DOMAIN test_results :
            LET r == test_results[i]
                actual == r.actual_result
                examined ==
                    /\ ~Contains(<<"P","e","r","f","o","r","m","a","n","c","e">>, r.test_case_id)
                    /\ ~Contains(<<"C","o","m","p","l","i","a","n","c","e">>, r.test_case_id)
                    /\ \A j \in DOMAIN test_results :
                           test_results[j].test_case_id = r.test_case_id => j = i
                alert_triggered == Get(actual, "fraud_alert_triggered", FALSE)
                inconsistent ==
                    \/ actual.risk_score[1] > 90 /\ ~alert_triggered
                    \/ actual.risk_score[1] < 30 /\ alert_triggered
                reported ==
                    \E k \in DOMAIN hallucination_checks :
                        /\ hallucination_checks[k].test_case_id = r.test_case_id
                        /\ \E j \in DOMAIN hallucination_checks[k].hallucinations_detected :
                               hallucination_checks[k].hallucinations_detected[j]
                                   = Finding("invalid_logic", HIGH, "risk_score")
            IN  (examined /\ Has(actual, "risk_score")) => (reported <=> inconsistent)

\* verify_results has returned for a missed fraud whose risk_score is 150 and
\* whose alert is not triggered: the check holds the range finding alone
C25_RangeFindingHidesInconsistency ==
    /\ pc = "verified"
    /\ Len(test_results) = 1
    /\ test_results[1].actual_result.risk_score = <<150>>
    /\ ~Get(test_results[1].actual_result, "fraud_alert_triggered", FALSE)
    /\ Len(hallucination_checks) = 1
    /\ hallucination_checks[1].hallucinations_detected
           = <<Finding("incorrect_calculations", CRITICAL, "risk_score")>>

\* C26: for a test case whose category contains "Compliance", the validation
\* _validate_result returns holds a compliance error (and so the status
\* FAILED) if and only if actual_result.compliance_met is false (an absent key
\* reads as false); for a test case whose category does not contain
\* "Compliance" no compliance error is ever appended
C26_ComplianceErrorIffNotMet ==
    (results # <<>> /\ validation_result # <<>>) =>
        LET test_case == test_cases[Len(results)]
            actual_result == results[Len(results)].actual_result
            validation == validation_result[1]
            compliance_error ==
                \E i \in DOMAIN validation.errors :
                    Contains(<<"C","o","m","p","l","i","a","n","c","e"," ","v","a","l","i","d","a","t","i","o","n"," ","f","a","i","l","e","d">>, validation.errors[i])
        IN  IF Contains(<<"C","o","m","p","l","i","a","n","c","e">>, test_case.category)
            THEN /\ compliance_error <=> ~Get(actual_result, "compliance_met", FALSE)
                 /\ compliance_error => validation.status = FAILED
            ELSE ~compliance_error

\* the validation of a Compliance test case whose check was not met has
\* returned FAILED with the compliance error alone, listing the violations
C26_FailedOnComplianceNotMet ==
    /\ results # <<>>
    /\ validation_result # <<>>
    /\ Contains(<<"C","o","m","p","l","i","a","n","c","e">>, test_cases[Len(results)].category)
    /\ results[Len(results)].actual_result.compliance_met = <<FALSE>>
    /\ validation_result[1].status = FAILED
    /\ validation_result[1].errors
           = <<<<"C","o","m","p","l","i","a","n","c","e"," ","v","a","l","i","d","a","t","i","o","n"," ","f","a","i","l","e","d",":"," ","[","'","M","i","s","s","i","n","g"," ","e","n","c","r","y","p","t","i","o","n"," ","o","n"," ","P","I","I"," ","f","i","e","l","d","s","'","]">>>>

\* C27: every FAILED result of a test case that the validator treated as a
\* Compliance test (category contains "Compliance") is counted among the
\* compliance failures used for compliance_risk, so an assessment over at
\* least one such failure has compliance_risk >= 60 (85 over two, 100 over
\* three or more)
C27_FailedComplianceCounted ==
    (pc = "call" /\ risk_assessment # <<>>) =>
        LET compliance_cases ==
                {tc \in TestCaseSource \cup
                        {[tcKyc EXCEPT !.test_case_id = <<"T","C","-","G","R","O","Q","-","0","0","9">>,
                                       !.expected_result = Expected(FALSE, Num(75))]} :
                    Contains(<<"C","o","m","p","l","i","a","n","c","e">>, tc.category)}
            failed_compliance ==
                {i \in DOMAIN test_results :
                    /\ test_results[i].status = FAILED
                    /\ \E tc \in compliance_cases, rnd \in ComplianceDraws :
                           test_results[i] = ExecuteSingleTest(tc, rnd)}
            n == Cardinality(failed_compliance)
        IN  risk_assessment[1].compliance_risk
                >= (IF n = 0 THEN 0 ELSE IF n = 1 THEN 6000
                    ELSE IF n = 2 THEN 8500 ELSE 10000)

\* calculate_risk has returned compliance_risk 0 for a list whose first result
\* is the FAILED result of a Compliance case under the id TC-GROQ-009
C27_FailedComplianceUnderGroqId ==
    /\ pc = "call"
    /\ risk_assessment # <<>>
    /\ test_results # <<>>
    /\ test_results[1].test_case_id = <<"T","C","-","G","R","O","Q","-","0","0","9">>
    /\ test_results[1].status = FAILED
    /\ \E i \in DOMAIN test_results[1].errors :
           Contains(<<"C","o","m","p","l","i","a","n","c","e"," ","v","a","l","i","d","a","t","i","o","n"," ","f","a","i","l","e","d">>, test_results[1].errors[i])
    /\ risk_assessment[1].compliance_risk = 0

\* C28: edge-case test results (test_case_id containing "EDGE") are excluded
\* from the detection-risk computation: they count neither in the number of
\* fraud-positive tests nor in the number of false negatives, so the
\* detection_risk of an assessment is the one computed after removing every
\* edge-case result
C28_EdgeCasesLeftOutOfDetection ==
    (pc \in {"summary", "report", "done"} /\ risk_assessment # <<>>) =>
        LET isEdge(r) == Contains(<<"E","D","G","E">>, r.test_case_id)
            notEdge(r) == ~isEdge(r)
            edge_cases == SelectSeq(test_results, isEdge)
            others == SelectSeq(test_results, notEdge)
        IN  /\ risk_assessment[1].detection_risk = Round2(CalculateDetectionRisk(others))
            /\ Round2(CalculateDetectionRisk(edge_cases)) = 0

\* the cycle over a detected fraud and an edge case whose fraud was missed has
\* detection_risk 100, where the detected fraud alone gives 0
C28_MissedEdgeCaseRaisesDetection ==
    /\ pc = "done"
    /\ Len(test_results) = 2
    /\ test_results[1] = fraudDetected
    /\ Contains(<<"E","D","G","E">>, test_results[2].test_case_id)
    /\ test_results[2].status = FAILED
    /\ risk_assessment # <<>>
    /\ risk_assessment[1].detection_risk = 10000
    /\ Round2(CalculateDetectionRisk(<<fraudDetected>>)) = 0

\* C29: in every list of test results produced by execute_test_suite with the
\* simulated oracle no FAILED result carries an error string containing
\* "CRITICAL"; hence after a full QA cycle get_deployment_recommendation never
\* returns the 'Critical failures detected' decision and the outcome is
\* decided by overall_risk_score alone
C29_NoCriticalFailureFromOracle ==
    /\ \A i \in DOMAIN results :
           results[i].status = FAILED =>
               \A j \in DOMAIN results[i].errors :
                   ~Contains(<<"C","R","I","T","I","C","A","L">>, results[i].errors[j])
    /\ recommendation # DecisionCritical
    /\ (pc = "done" /\ recommendation # None) =>
           recommendation =
               (IF risk_assessment[1].overall_risk_score >= 7500 THEN DecisionHighRisk
                ELSE IF risk_assessment[1].overall_risk_score >= 5000 THEN DecisionCaution
                ELSE DecisionApproved)

\* after a cycle whose results are a missed fraud and a compliance failure
\* listing the incomplete audit log, the recommendation is the one of the
\* overall score: deploy with caution
C29_FailuresDecidedByScore ==
    /\ pc = "done"
    /\ Len(test_results) = 2
    /\ test_results[1].status = FAILED
    /\ test_results[1].errors
           = <<<<"F","A","L","S","E"," ","N","E","G","A","T","I","V","E",":"," ","F","r","a","u","d"," ","n","o","t"," ","d","e","t","e","c","t","e","d"," ","(","e","x","p","e","c","t","e","d"," ","a","l","e","r","t",","," ","g","o","t"," ","n","o","n","e",")">>>>
    /\ test_results[2].status = FAILED
    /\ test_results[2].errors
           = <<<<"C","o","m","p","l","i","a","n","c","e"," ","v","a","l","i","d","a","t","i","o","n"," ","f","a","i","l","e","d",":"," ","[","'","I","n","c","o","m","p","l","e","t","e"," ","a","u","d","i","t"," ","l","o","g"," ","f","o","r"," ","t","r","a","n","s","a","c","t","i","o","n"," ","X","Y","Z","'","]">>>>
    /\ risk_assessment[1].overall_risk_score = 5300
    /\ recommendation = DecisionCaution

\* C30: after any sequence of run_full_qa_cycle calls on one FraudQAAgent,
\* including calls that raise part-way through, whenever the agent holds a
\* non-null risk_assessment it is the assessment computed from the
\* test_results the agent currently holds, so a recommendation is never made
\* from the results of one cycle and the risk assessment of an earlier cycle
C30_AssessmentOfHeldResults ==
    (pc \in {"idle", "done"} /\ risk_assessment # <<>>) =>
        LET outcome == CalculateRisk(test_results)
        IN  /\ outcome.exception = <<>>
            /\ risk_assessment = outcome.value
            /\ recommendation # None =>
                   recommendation = GetDeploymentRecommendation(outcome.value, test_results)

\* the second run_full_qa_cycle designed no test case and raised in
\* calculate_risk: the agent holds no result and the assessment of the first
\* cycle (overall score 55), from which the recommendation was made
C30_EarlierAssessmentAfterRaise ==
    /\ pc = "idle"
    /\ raised # None
    /\ test_cases = <<>>
    /\ test_results = <<>>
    /\ risk_assessment # <<>>
    /\ risk_assessment[1].overall_risk_score = 5500
    /\ recommendation = DecisionCaution

====
